---- MODULE Spec2Model ----
(***************************************************************************)
(* LandCraft landing page builder: the AppState store (state, undo/redo    *)
(* history, listeners, persistence) and the commands that go through it.   *)
(*                                                                         *)
(* JavaScript values are modelled as follows.  null is the string "null",  *)
(* undefined the string "undefined"; an object is a record, the empty      *)
(* object {} is << >>; an array is a sequence.  Array indices of the       *)
(* source are 0-based and are kept 0-based in the variables (currentStep,  *)
(* historyIndex); element i of an array a is a[i + 1].  A hole left in the *)
(* steps array by splice(i, 0, undefined) is the record undefinedStep.     *)
(***************************************************************************)
EXTENDS Integers, Sequences, FiniteSets, TLC

VARIABLES
    state,          \* AppState.state, the live project
    history,        \* AppState.history, the snapshots
    historyIndex,   \* AppState.historyIndex, the cursor (0-based, -1 when empty)
    listeners,      \* AppState.listeners, a Set in insertion order
    storage,        \* localStorage['landcraft_state']: << >> when absent, else <<s>>
    aliased,        \* positions p of history whose object shares structure with state
    effects,        \* what the last call did, in order: saves, notifications, writes
    ret,            \* what the last call returned ("throw" when it threw)
    last,           \* the last call: its name, and the cursor and length it started from
    initialized,    \* AppState.init() has run
    writable,       \* localStorage.setItem succeeds on this page (FALSE: it throws)
    validated,      \* the last call of Validation: its name, arguments and result
    dataTheme,      \* the data-theme attribute of the document ("null" when absent)
    properties,     \* the Properties panel: what it shows and the edits it has pending
    modal,          \* the Modal object, with the promise of the publish modal
    toast           \* the Toast object, with the timers it has pending

\* The components of the page that the calls of AppState leave alone.
components == <<properties, modal, toast>>

vars == <<state, history, historyIndex, listeners, storage, aliased, effects, ret,
          last, initialized, writable, validated, dataTheme, properties, modal, toast>>

(***************************************************************************)
(* Program constants and bounds of the model.                              *)
(***************************************************************************)
maxHistorySize == 50

\* Outside SpecDeep no commit is made that would move the cursor past MaxHist.
MaxHist == 2

\* The listeners App.init subscribes, in its order: Properties.init, Preview.init and
\* Canvas.init (App.initComponents), then App.setupEventListeners.
Listeners == <<"properties", "preview", "canvas", "app">>
StepNames == {""}
ElementIds == {"null", "header", "field_1"}
Views == {"builder", "preview"}
StepIndices == -1 .. 2
FieldTypes == {"text", "mobile"}

Min(a, b) == IF a < b THEN a ELSE b
Max(a, b) == IF a > b THEN a ELSE b

(***************************************************************************)
(* The document.                                                           *)
(***************************************************************************)
InitialState ==
    [projectName     |-> "Untitled Project",
     currentStep     |-> 0,
     selectedElement |-> "null",
     currentView     |-> "builder",
     header |-> [image       |-> [url |-> "null", height |-> 300],
                 title       |-> [text |-> "Welcome to Our Page", bold |-> FALSE],
                 description |-> [text |-> "Fill out the form below to get started."]],
     steps  |-> << [id |-> "step_0", name |-> "Welcome", fields |-> << >>] >>,
     settings |-> [webhookUrl       |-> "",
                   submitButtonText |-> "Submit",
                   successMessage   |-> "Thank you! Your response has been recorded.",
                   showProgressBar  |-> TRUE,
                   theme            |-> "light"]]

\* What a slot of the steps array holds after splice(i, 0, undefined).
undefinedStep == [id |-> "undefined", name |-> "undefined", fields |-> << >>]

\* {...base, ...updates}
Spread(base, updates) ==
    [k \in (DOMAIN base) \cup (DOMAIN updates) |->
        IF k \in DOMAIN updates THEN updates[k] ELSE base[k]]

\* The ids of the steps and fields of a document.
IdsOf(doc) ==
    {doc.steps[k].id : k \in 1..Len(doc.steps)} \cup
    UNION {{doc.steps[k].fields[j].id : j \in 1..Len(doc.steps[k].fields)} :
             k \in 1..Len(doc.steps)}

\* Helpers.generateId(prefix): an id that none of the objects in `used` has.  The
\* time stamp and random suffix of the source are replaced by the least number
\* that gives such an id.
generateId(prefix, used) ==
    LET free(n) == ("step_" \o ToString(n)) \notin used /\ ("field_" \o ToString(n)) \notin used
        n == CHOOSE m \in 1..(Cardinality(used) + 1) :
                free(m) /\ \A l \in 1..(m - 1) : ~free(l)
    IN  prefix \o "_" \o ToString(n)

(***************************************************************************)
(* Object identity.  A reference is a value together with the object graph *)
(* it points into: "live" (the graph of this.state), "hist" (the snapshot  *)
(* at position pos of this.history) or "fresh" (a graph nothing else       *)
(* holds).                                                                 *)
(***************************************************************************)
Ref(v, owner, pos) == [v |-> v, owner |-> owner, pos |-> pos]

deepCloneShared(ref) == ref

\* Helpers.deepClone: the same value in a graph of newly made objects.
deepClone(ref) == Ref(ref.v, "fresh", 0)

(***************************************************************************)
(* The AppState object as one record, so that a method is an operator from *)
(* the object (and its arguments) to the object after the call.            *)
(***************************************************************************)
Self ==
    [state |-> state, history |-> history, historyIndex |-> historyIndex,
     listeners |-> listeners, storage |-> storage, aliased |-> aliased,
     effects |-> effects, ret |-> ret, last |-> last]

\* The object at the start of a call: nothing done yet, nothing returned yet.
Begin(op) ==
    [Self EXCEPT !.effects = << >>,
                 !.ret = "undefined",
                 !.last = [op |-> op, historyIndex |-> historyIndex,
                           length |-> Len(history)]]

Becomes(A) ==
    /\ state' = A.state
    /\ history' = A.history
    /\ historyIndex' = A.historyIndex
    /\ listeners' = A.listeners
    /\ storage' = A.storage
    /\ aliased' = A.aliased
    /\ effects' = A.effects
    /\ ret' = A.ret
    /\ last' = A.last

Event(ev, to, st, ok) == [ev |-> ev, to |-> to, st |-> st, ok |-> ok]

\* this.state = <ref>
AssignState(A, ref) ==
    [A EXCEPT !.state = ref.v,
              !.aliased = CASE ref.owner = "fresh" -> {}
                            [] ref.owner = "live"  -> @
                            [] ref.owner = "hist"  -> {ref.pos}]

getState(A) == A.state

\* The ids held by the live state, a snapshot or the persisted item.
UsedIds(A) ==
    IdsOf(A.state) \cup UNION {IdsOf(A.history[p]) : p \in 1..Len(A.history)}
                   \cup UNION {IdsOf(A.storage[p]) : p \in 1..Len(A.storage)}

(***************************************************************************)
(* Listeners and persistence.                                              *)
(***************************************************************************)
\* AppState.subscribe: Set.add keeps the first insertion.
subscribe(A, listener) ==
    IF \E i \in 1..Len(A.listeners) : A.listeners[i] = listener
    THEN A
    ELSE [A EXCEPT !.listeners = Append(@, listener)]

\* AppState.notifyListeners: every listener, in insertion order, gets this.state;
\* what a listener throws is caught and logged.
notifyListeners(A) ==
    [A EXCEPT !.effects =
        @ \o [i \in 1..Len(A.listeners) |-> Event("notify", A.listeners[i], A.state, TRUE)]]

storageSetNoCatch(A, value, ok) ==
    [A EXCEPT !.storage = IF ok THEN <<value>> ELSE @,
              !.effects = Append(@, Event("write", "", value, ok)),
              !.ret = IF ok THEN @ ELSE "throw"]

\* Helpers.storage.set: localStorage.setItem may throw (quota); then false is
\* returned and the stored item is what it was.
storageSet(A, value, ok) ==
    [A EXCEPT !.storage = IF ok THEN <<value>> ELSE @,
              !.effects = Append(@, Event("write", "", value, ok))]

\* AppState.persistState
persistState(A, ok) == storageSet(A, A.state, ok)

\* AppState.clearPersisted
clearPersisted(A) ==
    [A EXCEPT !.storage = << >>,
              !.effects = Append(@, Event("remove", "", A.state, TRUE))]

(***************************************************************************)
(* History.                                                                *)
(***************************************************************************)
saveToHistoryNoTruncate(A) ==
    LET c  == deepClone(Ref(A.state, "live", 0))
        h2 == Append(A.history, c.v)
        ev == Append(A.effects, Event("save", "", A.state, TRUE))
    IN  IF Len(h2) > maxHistorySize
        THEN [A EXCEPT !.history = Tail(h2), !.effects = ev]
        ELSE [A EXCEPT !.history = h2, !.historyIndex = @ + 1, !.effects = ev]

saveToHistoryNoLimit(A) ==
    LET h1 == IF A.historyIndex < Len(A.history) - 1
              THEN SubSeq(A.history, 1, A.historyIndex + 1)
              ELSE A.history
        c  == deepClone(Ref(A.state, "live", 0))
    IN  [A EXCEPT !.history = Append(h1, c.v), !.historyIndex = @ + 1,
                  !.effects = Append(@, Event("save", "", A.state, TRUE))]

saveToHistoryPop(A) ==
    LET h1 == IF A.historyIndex < Len(A.history) - 1
              THEN SubSeq(A.history, 1, A.historyIndex + 1)
              ELSE A.history
        c  == deepClone(Ref(A.state, "live", 0))
        h2 == Append(h1, c.v)
        ev == Append(A.effects, Event("save", "", A.state, TRUE))
    IN  IF Len(h2) > maxHistorySize
        THEN [A EXCEPT !.history = SubSeq(h2, 1, Len(h2) - 1), !.effects = ev]
        ELSE [A EXCEPT !.history = h2, !.historyIndex = @ + 1, !.effects = ev]

\* AppState.saveToHistory
saveToHistory(A) ==
    LET h1 == IF A.historyIndex < Len(A.history) - 1
              THEN SubSeq(A.history, 1, A.historyIndex + 1)
              ELSE A.history
        a1 == {p \in A.aliased : p <= Len(h1)}
        c  == deepClone(Ref(A.state, "live", 0))
        h2 == Append(h1, c.v)
        a2 == IF c.owner = "live" THEN a1 \cup {Len(h2)} ELSE a1
        ev == Append(A.effects, Event("save", "", A.state, TRUE))
    IN  IF Len(h2) > maxHistorySize
        THEN [A EXCEPT !.history = Tail(h2),
                       !.aliased = {p - 1 : p \in a2 \ {1}},
                       !.effects = ev]
        ELSE [A EXCEPT !.history = h2,
                       !.historyIndex = @ + 1,
                       !.aliased = a2,
                       !.effects = ev]

\* AppState.canUndo
canUndo(A) == A.historyIndex > 0

\* AppState.canRedo
canRedo(A) == A.historyIndex < Len(A.history) - 1

setStatePersistFirst(A, updates, saveHistory, ok) ==
    LET A1 == AssignState(A, deepClone(Ref(Spread(A.state, updates), "live", 0)))
        A2 == IF saveHistory THEN saveToHistory(A1) ELSE A1
    IN  notifyListeners(persistState(A2, ok))

setStateSaveFirst(A, updates, saveHistory, ok) ==
    LET A1 == IF saveHistory THEN saveToHistory(A) ELSE A
        A2 == AssignState(A1, deepClone(Ref(Spread(A.state, updates), "live", 0)))
    IN  persistState(notifyListeners(A2), ok)

\* AppState.setState
setState(A, updates, saveHistory, ok) ==
    LET A1 == AssignState(A, deepClone(Ref(Spread(A.state, updates), "live", 0)))
        A2 == IF saveHistory THEN saveToHistory(A1) ELSE A1
    IN  persistState(notifyListeners(A2), ok)

undoAlwaysNotifies(A, ok) ==
    LET i  == Max(A.historyIndex - 1, 0)
        A1 == AssignState([A EXCEPT !.historyIndex = i],
                          deepClone(Ref(A.history[i + 1], "hist", i + 1)))
    IN  [persistState(notifyListeners(A1), ok) EXCEPT !.ret = "true"]

\* AppState.undo
undo(A, ok) ==
    IF A.historyIndex > 0
    THEN LET i  == A.historyIndex - 1
             A1 == AssignState([A EXCEPT !.historyIndex = i],
                               deepClone(Ref(A.history[i + 1], "hist", i + 1)))
         IN  [persistState(notifyListeners(A1), ok) EXCEPT !.ret = "true"]
    ELSE [A EXCEPT !.ret = "false"]

redoStale(A, ok) ==
    IF A.historyIndex < Len(A.history) - 1
    THEN LET i  == A.historyIndex + 1
             A1 == AssignState([A EXCEPT !.historyIndex = i],
                               deepClone(Ref(A.history[i], "hist", i)))
         IN  [persistState(notifyListeners(A1), ok) EXCEPT !.ret = "true"]
    ELSE [A EXCEPT !.ret = "false"]

\* AppState.redo
redo(A, ok) ==
    IF A.historyIndex < Len(A.history) - 1
    THEN LET i  == A.historyIndex + 1
             A1 == AssignState([A EXCEPT !.historyIndex = i],
                               deepClone(Ref(A.history[i + 1], "hist", i + 1)))
         IN  [persistState(notifyListeners(A1), ok) EXCEPT !.ret = "true"]
    ELSE [A EXCEPT !.ret = "false"]

\* AppState.getPath(path, defaultValue), the path given as its keys in order.  The
\* paths asked for lead through objects only.
RECURSIVE Walk(_, _, _)
Walk(current, keys, defaultValue) ==
    IF keys = << >> THEN current
    ELSE IF Head(keys) \notin DOMAIN current THEN defaultValue
    ELSE Walk(current[Head(keys)], Tail(keys), defaultValue)

getPath(A, path, defaultValue) == Walk(A.state, path, defaultValue)

\* App.initTheme: the value it sets data-theme to.
initTheme(A) == getPath(A, <<"settings", "theme">>, "light")

\* AppState.init: the persisted item, when there is one, is spread over the defaults.
init(A) ==
    LET A1 == IF A.storage # << >>
              THEN AssignState(A, Ref(Spread(A.state, A.storage[1]), "live", 0))
              ELSE A
    IN  notifyListeners(saveToHistory(A1))

resetKeepHistory(A) ==
    notifyListeners(saveToHistory(
        AssignState(clearPersisted(A), Ref(InitialState, "fresh", 0))))

\* AppState.reset
reset(A) ==
    LET A1 == AssignState(clearPersisted(A), Ref(InitialState, "fresh", 0))
        A2 == [A1 EXCEPT !.history = << >>, !.historyIndex = -1, !.aliased = {}]
    IN  notifyListeners(saveToHistory(A2))

(***************************************************************************)
(* Arrays.                                                                 *)
(***************************************************************************)
\* a.filter((_, i) => i !== index)
FilterIndex(a, index) ==
    IF index >= 0 /\ index < Len(a)
    THEN SubSeq(a, 1, index) \o SubSeq(a, index + 2, Len(a))
    ELSE a

\* Where Array.prototype.splice starts for a start argument i on an array of length len.
SpliceStart(len, i) == IF i < 0 THEN Max(len + i, 0) ELSE Min(i, len)

\* a after a.splice(i, 1)
SpliceOut(a, i) == FilterIndex(a, SpliceStart(Len(a), i))

\* What a.splice(i, 1) returns, destructured as [removed]: undefined when nothing is removed.
SpliceRemoved(a, i, undef) ==
    IF SpliceStart(Len(a), i) < Len(a) THEN a[SpliceStart(Len(a), i) + 1] ELSE undef

\* a after a.splice(i, 0, x)
SpliceIn(a, i, x) ==
    LET k == SpliceStart(Len(a), i)
    IN  SubSeq(a, 1, k) \o <<x>> \o SubSeq(a, k + 1, Len(a))

\* a[index] is an object (not undefined: an index out of range, or a hole)
HasStep(a, index) == index >= 0 /\ index < Len(a) /\ a[index + 1] # undefinedStep

\* The entries of the steps array that are steps.
RealSteps(a) == SelectSeq(a, LAMBDA s : s # undefinedStep)

(***************************************************************************)
(* Step management.                                                        *)
(***************************************************************************)
\* AppState.addStep
addStep(A, name, ok) ==
    LET newStep == [id     |-> generateId("step", UsedIds(A)),
                    name   |-> IF name # "" THEN name
                               ELSE "Step " \o ToString(Len(A.state.steps) + 1),
                    fields |-> << >>]
    IN  [setState(A, [steps |-> Append(A.state.steps, newStep)], TRUE, ok)
            EXCEPT !.ret = "object"]

\* AppState.updateStep
updateStep(A, stepIndex, updates, ok) ==
    IF HasStep(A.state.steps, stepIndex)
    THEN setState(A, [steps |-> [A.state.steps EXCEPT
                                    ![stepIndex + 1] = Spread(@, updates)]], TRUE, ok)
    ELSE A

deleteStepNoGuard(A, stepIndex, ok) ==
    LET steps == FilterIndex(A.state.steps, stepIndex)
        currentStep == IF A.state.currentStep >= Len(steps)
                       THEN Len(steps) - 1
                       ELSE A.state.currentStep
    IN  setState(A, [steps |-> steps, currentStep |-> currentStep], TRUE, ok)

deleteStepNoClamp(A, stepIndex, ok) ==
    IF Len(A.state.steps) <= 1
    THEN A
    ELSE setState(A, [steps |-> FilterIndex(A.state.steps, stepIndex),
                      currentStep |-> A.state.currentStep], TRUE, ok)

\* AppState.deleteStep
deleteStep(A, stepIndex, ok) ==
    IF Len(A.state.steps) <= 1
    THEN A
    ELSE LET steps == FilterIndex(A.state.steps, stepIndex)
             currentStep == IF A.state.currentStep >= Len(steps)
                            THEN Len(steps) - 1
                            ELSE A.state.currentStep
         IN  setState(A, [steps |-> steps, currentStep |-> currentStep], TRUE, ok)

\* AppState.reorderSteps
reorderSteps(A, fromIndex, toIndex, ok) ==
    LET removed == SpliceRemoved(A.state.steps, fromIndex, undefinedStep)
        steps   == SpliceIn(SpliceOut(A.state.steps, fromIndex), toIndex, removed)
    IN  setState(A, [steps |-> steps], TRUE, ok)

setCurrentStepNoCheck(A, index, ok) == setState(A, [currentStep |-> index], TRUE, ok)

\* AppState.setCurrentStep
setCurrentStep(A, index, ok) ==
    IF index >= 0 /\ index < Len(A.state.steps)
    THEN setState(A, [currentStep |-> index], TRUE, ok)
    ELSE A

(***************************************************************************)
(* Field management.                                                       *)
(***************************************************************************)
\* AppState.getFieldDefaults, for the types of FieldTypes
getFieldDefaults(type) ==
    IF type = "mobile"
    THEN [label |-> "Mobile Number",
          placeholder |-> "Enter 10-digit mobile number...",
          required |-> FALSE,
          validation |-> [mobile |-> TRUE, maxLength |-> 10],
          conditionalLogic |-> [enabled |-> FALSE]]
    ELSE [label |-> "Text Field",
          placeholder |-> "Enter text...",
          required |-> FALSE,
          validation |-> << >>,
          conditionalLogic |-> [enabled |-> FALSE]]

\* AppState.addField; steps[currentStep].fields throws a TypeError when
\* steps[currentStep] is undefined.
addField(A, type, config, ok) ==
    LET newField == Spread(Spread([id |-> generateId("field", UsedIds(A)), type |-> type],
                                  getFieldDefaults(type)), config)
        k  == A.state.currentStep + 1
    IN  IF ~HasStep(A.state.steps, A.state.currentStep)
        THEN [A EXCEPT !.ret = "throw"]
        ELSE [setState(A, [steps |-> [A.state.steps EXCEPT
                                         ![k].fields = Append(@, newField)],
                            selectedElement |-> newField.id], TRUE, ok)
                EXCEPT !.ret = "object"]

\* AppState.addFieldAt: as addField, with fields.splice(index, 0, newField).
addFieldAt(A, type, index, config, ok) ==
    LET newField == Spread(Spread([id |-> generateId("field", UsedIds(A)), type |-> type],
                                  getFieldDefaults(type)), config)
        k  == A.state.currentStep + 1
    IN  IF ~HasStep(A.state.steps, A.state.currentStep)
        THEN [A EXCEPT !.ret = "throw"]
        ELSE [setState(A, [steps |-> [A.state.steps EXCEPT
                                         ![k].fields = SpliceIn(@, index, newField)],
                            selectedElement |-> newField.id], TRUE, ok)
                EXCEPT !.ret = "object"]

\* Canvas.handleDuplicate(field), for the field at position j (0-based) of the
\* active step: a deep copy with a new id and " (Copy)" added to the label is
\* handed to addFieldAt as its configuration.
handleDuplicate(A, j, ok) ==
    LET field    == A.state.steps[A.state.currentStep + 1].fields[j + 1]
        newField == [field EXCEPT !.id = generateId("field", UsedIds(A)),
                                  !.label = @ \o " (Copy)"]
    IN  addFieldAt(A, newField.type, j + 1, newField, ok)

\* The position (1-based) of the first step that holds the field, 0 when none does.
StepOfField(steps, fieldId) ==
    LET hits == {k \in 1..Len(steps) :
                    \E j \in 1..Len(steps[k].fields) : steps[k].fields[j].id = fieldId}
    IN  IF hits = {} THEN 0 ELSE CHOOSE k \in hits : \A m \in hits : k <= m

\* The position (1-based) of the first hole of the steps array, 0 when there is none.
FirstHole(steps) ==
    LET holes == {k \in 1..Len(steps) : steps[k] = undefinedStep}
    IN  IF holes = {} THEN 0 ELSE CHOOSE k \in holes : \A m \in holes : k <= m

\* The position (1-based) of the first field of fields with this id, 0 when none has it.
FieldIndex(fields, fieldId) ==
    LET hits == {j \in 1..Len(fields) : fields[j].id = fieldId}
    IN  IF hits = {} THEN 0 ELSE CHOOSE j \in hits : \A m \in hits : j <= m

\* AppState.deleteField; the loop over the steps reads step.fields, which throws a
\* TypeError on a hole met before the field is found.
deleteField(A, fieldId, ok) ==
    LET steps == A.state.steps
        k == StepOfField(steps, fieldId)
        h == FirstHole(steps)
    IN  IF h # 0 /\ (k = 0 \/ h < k)
        THEN [A EXCEPT !.ret = "throw"]
        ELSE IF k = 0
        THEN A
        ELSE setState(A, [steps |-> [steps EXCEPT ![k].fields =
                                        FilterIndex(@, FieldIndex(@, fieldId) - 1)],
                          selectedElement |-> "null"], TRUE, ok)

\* What splice(i, 0, undefined) puts into a fields array.
undefinedField == [id |-> "undefined"]

\* AppState.reorderFields; steps[currentStep].fields throws a TypeError when
\* steps[currentStep] is undefined.
reorderFields(A, fromIndex, toIndex, ok) ==
    LET k       == A.state.currentStep + 1
        moved(fields) ==
            SpliceIn(SpliceOut(fields, fromIndex), toIndex,
                     SpliceRemoved(fields, fromIndex, undefinedField))
    IN  IF ~HasStep(A.state.steps, A.state.currentStep)
        THEN [A EXCEPT !.ret = "throw"]
        ELSE setState(A, [steps |-> [A.state.steps EXCEPT ![k].fields = moved(@)]],
                      TRUE, ok)

updateFieldReplace(A, fieldId, updates, ok) ==
    LET steps == A.state.steps
        k == StepOfField(steps, fieldId)
        h == FirstHole(steps)
    IN  IF h # 0 /\ (k = 0 \/ h < k)
        THEN [A EXCEPT !.ret = "throw"]
        ELSE IF k = 0
        THEN A
        ELSE setState(A, [steps |-> [steps EXCEPT
                    ![k].fields[FieldIndex(steps[k].fields, fieldId)] = updates]],
                      TRUE, ok)

\* AppState.updateField; as in deleteField, a hole met before the field throws.
updateField(A, fieldId, updates, ok) ==
    LET steps == A.state.steps
        k == StepOfField(steps, fieldId)
        h == FirstHole(steps)
    IN  IF h # 0 /\ (k = 0 \/ h < k)
        THEN [A EXCEPT !.ret = "throw"]
        ELSE IF k = 0
        THEN A
        ELSE setState(A, [steps |-> [steps EXCEPT
                    ![k].fields[FieldIndex(steps[k].fields, fieldId)] = Spread(@, updates)]],
                      TRUE, ok)

selectElementSaving(A, elementId, ok) ==
    setState(A, [selectedElement |-> elementId], TRUE, ok)

\* AppState.selectElement
selectElement(A, elementId, ok) == setState(A, [selectedElement |-> elementId], FALSE, ok)

(***************************************************************************)
(* Header, settings, view.                                                 *)
(***************************************************************************)
\* AppState.updateHeaderTitle
updateHeaderTitle(A, titleData, ok) ==
    setState(A, [header |-> [A.state.header EXCEPT !.title = Spread(@, titleData)]],
             TRUE, ok)

\* AppState.updateSettings
updateSettings(A, settings, ok) ==
    setState(A, [settings |-> Spread(A.state.settings, settings)], TRUE, ok)

\* AppState.toggleTheme
toggleTheme(A, ok) ==
    updateSettings(A, [theme |-> IF A.state.settings.theme = "light"
                                 THEN "dark" ELSE "light"], ok)

\* App.switchView: the view is set without a history entry.
switchView(A, view, ok) == setState(A, [currentView |-> view], FALSE, ok)

(***************************************************************************)
(* Import.  The argument of importJSON is modelled by how it parses:       *)
(* parse = "error" (JSON.parse throws), "null" (the value null),           *)
(* "primitive" (a number, a string or a boolean, whose properties all read *)
(* as undefined) or "object" with the parsed object in data.  A key the    *)
(* object does not have is a key the record does not have.  data.steps is  *)
(* a record [array, items]: array is FALSE for a value that is no array,   *)
(* which has the key falsy when it is 0, "" or false; a null item of the   *)
(* array is the record nullItem.                                           *)
(***************************************************************************)
nullItem == [isNull |-> TRUE]

Has(obj, key) == key \in DOMAIN obj

\* obj[key] || fallback, for a key whose values here are all truthy when present
OrElse(obj, key, fallback) == IF Has(obj, key) THEN obj[key] ELSE fallback

\* One field of the schema, as importJSON maps it; used holds the ids in use.
ImportField(f, used) ==
    LET v == OrElse(f, "validation", << >>)
        validation ==
            [k \in {x \in {"minLength", "maxLength", "pattern", "errorMessage"} :
                      \/ x = "minLength" /\ Has(v, "min_length")
                      \/ x = "maxLength" /\ Has(v, "max_length")
                      \/ x = "pattern" /\ Has(v, "pattern")
                      \/ x = "errorMessage" /\ Has(v, "error_message")} |->
                CASE k = "minLength" -> v["min_length"]
                  [] k = "maxLength" -> v["max_length"]
                  [] k = "pattern" -> v["pattern"]
                  [] k = "errorMessage" -> v["error_message"]]
    IN  [id |-> IF Has(f, "id") THEN f.id ELSE generateId("field", used),
         type |-> OrElse(f, "type", "undefined"),
         label |-> OrElse(f, "label", "undefined"),
         placeholder |-> OrElse(f, "placeholder", ""),
         required |-> OrElse(f, "required", FALSE),
         options |-> OrElse(f, "options", << >>),
         validation |-> validation,
         conditionalLogic |-> OrElse(f, "conditional_logic", [enabled |-> FALSE])]

RECURSIVE ImportFields(_, _, _)
\* (step.fields || []).map(...), from position i on
ImportFields(fs, i, used) ==
    IF i > Len(fs)
    THEN << >>
    ELSE LET one == ImportField(fs[i], used)
         IN  <<one>> \o ImportFields(fs, i + 1, used \cup {one.id})

RECURSIVE ImportSteps(_, _, _)
\* (data.steps || []).map(...), from position i on
ImportSteps(items, i, used) ==
    IF i > Len(items)
    THEN << >>
    ELSE LET id   == generateId("step", used)
             fs   == ImportFields(OrElse(items[i], "fields", << >>), 1, used \cup {id})
             step == [id |-> id,
                      name |-> OrElse(items[i], "step_name", "Step " \o ToString(i)),
                      fields |-> fs]
         IN  <<step>> \o ImportSteps(items, i + 1, used \cup IdsOf([steps |-> <<step>>]))

\* Whether building newState throws a TypeError: data is null, data.steps has no
\* map method, or an item of data.steps is null.
ImportThrows(json) ==
    \/ json.parse \in {"error", "null"}
    \/ /\ Has(json.data, "steps")
       /\ \/ ~json.data.steps.array /\ ~Has(json.data.steps, "falsy")
          \/ \E i \in 1..Len(json.data.steps.items) : json.data.steps.items[i] = nullItem

importJSONNoFallback(A, json, ok) ==
    IF ImportThrows(json)
    THEN [A EXCEPT !.ret = "false"]
    ELSE LET data == json.data
             mapped == ImportSteps(IF Has(data, "steps") THEN data.steps.items ELSE << >>,
                                   1, UsedIds(A))
             newState ==
                [projectName |-> OrElse(data, "project_name", "Imported Project"),
                 header |-> A.state.header,
                 steps |-> mapped,
                 settings |-> A.state.settings,
                 currentStep |-> 0,
                 selectedElement |-> "null"]
         IN  [setState(A, newState, TRUE, ok)
                 EXCEPT !.ret = "true"]

\* AppState.importJSON
importJSON(A, json, ok) ==
    IF ImportThrows(json)
    THEN [A EXCEPT !.ret = "false"]
    ELSE LET data == json.data
             mapped == ImportSteps(IF Has(data, "steps") THEN data.steps.items ELSE << >>,
                                   1, UsedIds(A))
             title == IF Has(data, "title")
                      THEN [text |-> OrElse(data.title, "text", ""),
                            bold |-> OrElse(data.title, "bold", FALSE)]
                      ELSE A.state.header.title
             description == IF Has(data, "description")
                            THEN [text |-> OrElse(data.description, "text", "")]
                            ELSE A.state.header.description
             st == OrElse(data, "settings", << >>)
             newState ==
                [projectName |-> OrElse(data, "project_name", "Imported Project"),
                 header |-> [image |-> [url |-> OrElse(data, "header_image", "undefined"),
                                        height |-> OrElse(data, "header_image_height", 300)],
                             title |-> title,
                             description |-> description],
                 steps |-> IF Len(mapped) = 0
                           THEN << [id |-> "step_0", name |-> "Step 1", fields |-> << >>] >>
                           ELSE mapped,
                 settings |-> [webhookUrl |-> OrElse(data, "webhook_url", ""),
                               submitButtonText |-> OrElse(st, "submit_button_text", "Submit"),
                               successMessage |-> OrElse(st, "success_message", "Thank you!"),
                               showProgressBar |-> OrElse(st, "show_progress_bar", TRUE),
                               theme |-> A.state.settings.theme],
                 currentStep |-> 0,
                 selectedElement |-> "null"]
         IN  [setState(A, newState, TRUE, ok)
                 EXCEPT !.ret = "true"]

\* The documents handed to importJSON.
ImportInputs ==
    {[parse |-> "error"],
     [parse |-> "null"],
     [parse |-> "primitive", data |-> << >>],
     [parse |-> "object", data |-> << >>],
     [parse |-> "object", data |-> [steps |-> [array |-> TRUE, items |-> << >>]]],
     [parse |-> "object",
      data |-> [steps |-> [array |-> FALSE, falsy |-> TRUE, items |-> << >>]]],
     [parse |-> "object", data |-> [steps |-> [array |-> FALSE, items |-> << >>]]],
     [parse |-> "object", data |-> [steps |-> [array |-> TRUE, items |-> <<nullItem>>]]],
     [parse |-> "object",
      data |-> [project_name |-> "Leads",
                steps |-> [array |-> TRUE,
                           items |-> << [step_name |-> "Contact",
                                         fields |-> << [type |-> "text",
                                                        label |-> "Name"] >>] >>]]]}

(***************************************************************************)
(* Validation (the Field Validator and the Condition Evaluator).           *)
(*                                                                         *)
(* A value handed to Validation is a record tagged with its type:          *)
(* [t |-> "undefined"], [t |-> "null"], [t |-> "string", s |-> chars],     *)
(* [t |-> "number", n |-> integer], [t |-> "boolean", b |-> BOOLEAN] and   *)
(* [t |-> "array", a |-> sequence of strings].  A string is the sequence   *)
(* of its characters.  Two arrays are never the same object.               *)
(***************************************************************************)
Digit == {"0", "1", "2", "3", "4", "5", "6", "7", "8", "9"}
Lowers == <<"a", "b", "c", "d", "e", "f", "g", "h", "i", "j", "k", "l", "m",
            "n", "o", "p", "q", "r", "s", "t", "u", "v", "w", "x", "y", "z">>
Uppers == <<"A", "B", "C", "D", "E", "F", "G", "H", "I", "J", "K", "L", "M",
            "N", "O", "P", "Q", "R", "S", "T", "U", "V", "W", "X", "Y", "Z">>
Lower == {Lowers[i] : i \in DOMAIN Lowers}
Upper == {Uppers[i] : i \in DOMAIN Uppers}
Whitespace == {" ", "\t", "\n"}

undefinedValue == [t |-> "undefined"]
StringValue(chars) == [t |-> "string", s |-> chars]
NumberValue(n) == [t |-> "number", n |-> n]

\* regex.test for a pattern ^[class]+$
AllOf(str, class) == Len(str) > 0 /\ \A i \in 1..Len(str) : str[i] \in class

\* String.prototype.trim
trim(str) ==
    LET kept == {i \in 1..Len(str) : str[i] \notin Whitespace}
    IN  IF kept = {}
        THEN << >>
        ELSE SubSeq(str, CHOOSE i \in kept : \A j \in kept : i <= j,
                         CHOOSE i \in kept : \A j \in kept : i >= j)

\* String.prototype.toUpperCase
toUpperCase(str) ==
    [i \in 1..Len(str) |->
        IF str[i] \in Lower
        THEN Uppers[CHOOSE k \in DOMAIN Lowers : Lowers[k] = str[i]]
        ELSE str[i]]

\* String.prototype.includes
includes(str, part) ==
    \E i \in 0..(Len(str) - Len(part)) : SubSeq(str, i + 1, i + Len(part)) = part

RECURSIVE Decimal(_)
\* The decimal digits of a natural number.
Decimal(n) ==
    LET d == <<"0", "1", "2", "3", "4", "5", "6", "7", "8", "9">>[(n % 10) + 1]
    IN  IF n < 10 THEN <<d>> ELSE Append(Decimal(n \div 10), d)

RECURSIVE Join(_)
\* Array.prototype.join(","), which String(array) is
Join(a) ==
    IF Len(a) = 0 THEN << >>
    ELSE IF Len(a) = 1 THEN a[1]
    ELSE a[1] \o <<",">> \o Join(Tail(a))

\* String(value)
String(value) ==
    CASE value.t = "string"    -> value.s
      [] value.t = "number"    -> IF value.n < 0 THEN <<"-">> \o Decimal(-value.n)
                                  ELSE Decimal(value.n)
      [] value.t = "boolean"   -> IF value.b THEN <<"t", "r", "u", "e">>
                                  ELSE <<"f", "a", "l", "s", "e">>
      [] value.t = "array"     -> Join(value.a)
      [] value.t = "null"      -> <<"n", "u", "l", "l">>
      [] value.t = "undefined" -> <<"u", "n", "d", "e", "f", "i", "n", "e", "d">>

\* Whether value is falsy, as in value || ''
Falsy(value) ==
    \/ value.t \in {"undefined", "null"}
    \/ value.t = "string" /\ value.s = << >>
    \/ value.t = "number" /\ value.n = 0
    \/ value.t = "boolean" /\ ~value.b

NaN == [nan |-> TRUE]

RECURSIVE DigitsValue(_)
\* The number a sequence of digits writes.
DigitsValue(ds) ==
    IF Len(ds) = 0 THEN 0
    ELSE 10 * DigitsValue(SubSeq(ds, 1, Len(ds) - 1))
         + (CHOOSE n \in 0..9 : Decimal(n) = <<ds[Len(ds)]>>)

\* parseFloat(value): String(value) with leading white space dropped, then an
\* optional sign and the longest run of digits; NaN when there is no digit there.
\* What follows the digits is ignored.  (The strings of the model have no
\* decimal point or exponent right after such a run; parseInt reads them alike.)
parseFloat(value) ==
    LET Least(S) == CHOOSE i \in S : \A j \in S : i <= j
        digits(str, start, from, to) ==
            IF to = from
            THEN NaN
            ELSE [nan |-> FALSE,
                  n   |-> IF from > start /\ str[start] = "-"
                          THEN -DigitsValue(SubSeq(str, from, to - 1))
                          ELSE DigitsValue(SubSeq(str, from, to - 1))]
        number(str, start, from) ==
            digits(str, start, from,
                   Least({i \in from..(Len(str) + 1) :
                            i = Len(str) + 1 \/ str[i] \notin Digit}))
        signed(str, start) ==
            number(str, start,
                   IF start <= Len(str) /\ str[start] \in {"-", "+"}
                   THEN start + 1 ELSE start)
        read(str) ==
            signed(str, Least({i \in 1..(Len(str) + 1) :
                                 i = Len(str) + 1 \/ str[i] \notin Whitespace}))
    IN  read(String(value))

\* a < b for two numbers, false when either is NaN
LessThan(a, b) == ~a.nan /\ ~b.nan /\ a.n < b.n

isEmptyNoTrim(value) ==
    CASE value.t \in {"null", "undefined"} -> TRUE
      [] value.t = "string" -> value.s = << >>
      [] value.t = "array"  -> Len(value.a) = 0
      [] OTHER -> FALSE

\* Validation.isEmpty
isEmpty(value) ==
    CASE value.t \in {"null", "undefined"} -> TRUE
      [] value.t = "string" -> trim(value.s) = << >>
      [] value.t = "array"  -> Len(value.a) = 0
      [] OTHER -> FALSE

LooseEquals(a, b) == a.t # "array" /\ (a = b \/ String(a) = String(b))

\* a === b; an array is equal to itself only, and the arrays of the model are
\* all different objects.
StrictEquals(a, b) == a.t # "array" /\ a = b

\* values[field], for a mapping values from field ids to values
ValueOf(values, field) ==
    IF field \in DOMAIN values THEN values[field] ELSE undefinedValue

evaluateConditionFailClosed(condition, values) ==
    IF "t" \in DOMAIN condition \/ ~("enabled" \in DOMAIN condition /\ condition.enabled)
    THEN TRUE
    ELSE IF "field" \notin DOMAIN condition \/ condition.field = ""
    THEN TRUE
    ELSE LET fieldValue == ValueOf(values, condition.field)
             value      == ValueOf(condition, "value")
             operator   == IF "operator" \in DOMAIN condition
                           THEN condition.operator ELSE "undefined"
             text       == IF Falsy(fieldValue) THEN << >> ELSE String(fieldValue)
         IN  CASE operator = "equals"       -> StrictEquals(fieldValue, value)
               [] operator = "not_equals"   -> ~StrictEquals(fieldValue, value)
               [] operator = "contains"     -> includes(text, String(value))
               [] operator = "not_contains" -> ~includes(text, String(value))
               [] operator = "not_empty"    -> ~isEmpty(fieldValue)
               [] operator = "empty"        -> isEmpty(fieldValue)
               [] operator = "greater_than" ->
                      LessThan(parseFloat(value), parseFloat(fieldValue))
               [] operator = "less_than"    ->
                      LessThan(parseFloat(fieldValue), parseFloat(value))
               [] operator = "starts_with"  ->
                      /\ Len(String(value)) <= Len(text)
                      /\ SubSeq(text, 1, Len(String(value))) = String(value)
               [] operator = "ends_with"    ->
                      /\ Len(String(value)) <= Len(text)
                      /\ SubSeq(text, Len(text) - Len(String(value)) + 1, Len(text))
                            = String(value)
               [] OTHER -> FALSE

\* Validation.evaluateCondition.  condition is undefinedValue when absent, else a
\* record; a key it does not have reads as undefined.  The condition value handed
\* to includes, startsWith and endsWith is turned into a string as they do.
evaluateCondition(condition, values) ==
    IF "t" \in DOMAIN condition \/ ~("enabled" \in DOMAIN condition /\ condition.enabled)
    THEN TRUE
    ELSE IF "field" \notin DOMAIN condition \/ condition.field = ""
    THEN TRUE
    ELSE LET fieldValue == ValueOf(values, condition.field)
             value      == ValueOf(condition, "value")
             operator   == IF "operator" \in DOMAIN condition
                           THEN condition.operator ELSE "undefined"
             text       == IF Falsy(fieldValue) THEN << >> ELSE String(fieldValue)
         IN  CASE operator = "equals"       -> StrictEquals(fieldValue, value)
               [] operator = "not_equals"   -> ~StrictEquals(fieldValue, value)
               [] operator = "contains"     -> includes(text, String(value))
               [] operator = "not_contains" -> ~includes(text, String(value))
               [] operator = "not_empty"    -> ~isEmpty(fieldValue)
               [] operator = "empty"        -> isEmpty(fieldValue)
               [] operator = "greater_than" ->
                      LessThan(parseFloat(value), parseFloat(fieldValue))
               [] operator = "less_than"    ->
                      LessThan(parseFloat(fieldValue), parseFloat(value))
               [] operator = "starts_with"  ->
                      /\ Len(String(value)) <= Len(text)
                      /\ SubSeq(text, 1, Len(String(value))) = String(value)
               [] operator = "ends_with"    ->
                      /\ Len(String(value)) <= Len(text)
                      /\ SubSeq(text, Len(text) - Len(String(value)) + 1, Len(text))
                            = String(value)
               [] OTHER -> TRUE

\* Validation.patterns, each as the test of a string against it.
AlphaNumeric == Lower \cup Upper \cup Digit

\* /^[a-zA-Z0-9._%+-]+@[a-zA-Z0-9.-]+\.[a-zA-Z]{2,}$/
patterns_email(str) ==
    \E i, j \in 1..Len(str) :
        /\ str[i] = "@" /\ str[j] = "." /\ i + 1 < j
        /\ AllOf(SubSeq(str, 1, i - 1), AlphaNumeric \cup {".", "_", "%", "+", "-"})
        /\ AllOf(SubSeq(str, i + 1, j - 1), AlphaNumeric \cup {".", "-"})
        /\ Len(str) - j >= 2
        /\ AllOf(SubSeq(str, j + 1, Len(str)), Lower \cup Upper)

\* /^[0-9]{10}$/
patterns_mobile(str) == Len(str) = 10 /\ AllOf(str, Digit)

\* /^(https?:\/\/)?([\da-z.-]+)\.([a-z.]{2,6})([/\w .-]*)*\/?$/
patterns_url(str) ==
    \E scheme \in {<< >>, <<"h", "t", "t", "p", ":", "/", "/">>,
                   <<"h", "t", "t", "p", "s", ":", "/", "/">>} :
        /\ Len(scheme) <= Len(str)
        /\ SubSeq(str, 1, Len(scheme)) = scheme
        /\ \E dot \in (Len(scheme) + 2)..Len(str), end \in (Len(scheme) + 2)..Len(str) :
              /\ str[dot] = "."
              /\ AllOf(SubSeq(str, Len(scheme) + 1, dot - 1), Digit \cup Lower \cup {".", "-"})
              /\ end - dot >= 2 /\ end - dot <= 6
              /\ AllOf(SubSeq(str, dot + 1, end), Lower \cup {"."})
              /\ \A i \in (end + 1)..Len(str) :
                    str[i] \in AlphaNumeric \cup {"_", "/", " ", ".", "-"}

\* /^[0-9]{2}[A-Z]{5}[0-9]{4}[A-Z]{1}[1-9A-Z]{1}Z[0-9A-Z]{1}$/
patterns_gst(str) ==
    /\ Len(str) = 15
    /\ AllOf(SubSeq(str, 1, 2), Digit)
    /\ AllOf(SubSeq(str, 3, 7), Upper)
    /\ AllOf(SubSeq(str, 8, 11), Digit)
    /\ str[12] \in Upper
    /\ str[13] \in (Digit \ {"0"}) \cup Upper
    /\ str[14] = "Z"
    /\ str[15] \in Digit \cup Upper

\* /^[A-Z]{5}[0-9]{4}[A-Z]{1}$/
patterns_pan(str) ==
    /\ Len(str) = 10
    /\ AllOf(SubSeq(str, 1, 5), Upper)
    /\ AllOf(SubSeq(str, 6, 9), Digit)
    /\ str[10] \in Upper

\* /^[1-9][0-9]{5}$/
patterns_pincode(str) == Len(str) = 6 /\ AllOf(str, Digit) /\ str[1] # "0"

\* /^[a-zA-Z0-9]+$/, /^[a-zA-Z]+$/, /^[0-9]+$/
patterns_alphanumeric(str) == AllOf(str, AlphaNumeric)
patterns_alpha(str) == AllOf(str, Lower \cup Upper)
patterns_numeric(str) == AllOf(str, Digit)

\* Validation.messages; {min} and {max} are filled in by validateField.
messages ==
    [required |-> "This field is required",
     email |-> "Please enter a valid email address",
     mobile |-> "Please enter a valid 10-digit mobile number",
     url |-> "Please enter a valid URL",
     pattern |-> "Please enter a valid format",
     alphanumeric |-> "Only letters and numbers are allowed",
     alpha |-> "Only letters are allowed",
     numeric |-> "Only numbers are allowed",
     gst |-> "Please enter a valid GST number",
     pan |-> "Please enter a valid PAN number",
     pincode |-> "Please enter a valid 6-digit PIN code"]

\* new RegExp(pattern), for the patterns of the model: the class of a pattern
\* ^[class]+$, or that the constructor throws a SyntaxError.
RegExp(pattern) ==
    CASE pattern = "^[A-Za-z]+$" -> [throws |-> FALSE, class |-> Lower \cup Upper]
      [] pattern = "^[0-9]+$"    -> [throws |-> FALSE, class |-> Digit]
      [] OTHER                   -> [throws |-> TRUE]

\* What validateField returns, and that it threw.
Valid == [valid |-> TRUE, error |-> "null"]
Invalid(error) == [valid |-> FALSE, error |-> error]
TypeError == [throws |-> "TypeError"]

\* rules[key] as a condition: undefined, and every rule absent, is falsy.
Rule(rules, key) == key \in DOMAIN rules /\ rules[key]

\* rules.errorMessage || fallback
ErrorMessageOr(rules, fallback) ==
    IF "errorMessage" \in DOMAIN rules /\ rules.errorMessage # ""
    THEN rules.errorMessage ELSE fallback

\* The checks of validateField that follow the custom pattern, for a value that is
\* not empty: GST, PAN, pincode, alphanumeric, alpha, numeric.  value.toUpperCase
\* is a TypeError for a value that is no string.
AfterPattern(value, rules) ==
    LET str == String(value)
    IN  IF Rule(rules, "gst") /\ value.t # "string" THEN TypeError
        ELSE IF Rule(rules, "gst") /\ ~patterns_gst(toUpperCase(str))
        THEN Invalid(messages.gst)
        ELSE IF Rule(rules, "pan") /\ value.t # "string" THEN TypeError
        ELSE IF Rule(rules, "pan") /\ ~patterns_pan(toUpperCase(str))
        THEN Invalid(messages.pan)
        ELSE IF Rule(rules, "pincode") /\ ~patterns_pincode(str)
        THEN Invalid(messages.pincode)
        ELSE IF Rule(rules, "alphanumeric") /\ ~patterns_alphanumeric(str)
        THEN Invalid(messages.alphanumeric)
        ELSE IF Rule(rules, "alpha") /\ ~patterns_alpha(str)
        THEN Invalid(messages.alpha)
        ELSE IF Rule(rules, "numeric") /\ ~patterns_numeric(str)
        THEN Invalid(messages.numeric)
        ELSE Valid

FromPatternNoCatch(value, rules) ==
    IF "pattern" \in DOMAIN rules /\ rules.pattern # ""
    THEN LET regex == RegExp(rules.pattern)
         IN  IF regex.throws
             THEN [throws |-> "SyntaxError"]
             ELSE IF ~AllOf(String(value), regex.class)
             THEN Invalid(ErrorMessageOr(rules, messages.pattern))
             ELSE AfterPattern(value, rules)
    ELSE AfterPattern(value, rules)

\* The custom pattern check of validateField and what follows it.  A pattern that
\* does not compile is logged and passed over.
FromPattern(value, rules) ==
    IF "pattern" \in DOMAIN rules /\ rules.pattern # ""
    THEN LET regex == RegExp(rules.pattern)
         IN  IF ~regex.throws /\ ~AllOf(String(value), regex.class)
             THEN Invalid(ErrorMessageOr(rules, messages.pattern))
             ELSE AfterPattern(value, rules)
    ELSE AfterPattern(value, rules)

\* The length and range checks of validateField and what follows them.  The
\* rules minLength, maxLength, min and max are numbers when present.
FromMinLength(value, rules) ==
    LET str == String(value)
        num == parseFloat(value)
        limit(key) == parseFloat(NumberValue(rules[key]))
    IN  IF "minLength" \in DOMAIN rules /\ Len(str) < limit("minLength").n
        THEN Invalid("Minimum " \o ToString(rules.minLength) \o " characters required")
        ELSE IF "maxLength" \in DOMAIN rules /\ Len(str) > limit("maxLength").n
        THEN Invalid("Maximum " \o ToString(rules.maxLength) \o " characters allowed")
        ELSE IF "min" \in DOMAIN rules /\ LessThan(num, limit("min"))
        THEN Invalid("Value must be at least " \o ToString(rules.min))
        ELSE IF "max" \in DOMAIN rules /\ LessThan(limit("max"), num)
        THEN Invalid("Value must not exceed " \o ToString(rules.max))
        ELSE FromPattern(value, rules)

\* rules.type, undefined when the rules have none
TypeOf(rules) == IF "type" \in DOMAIN rules THEN rules.type ELSE "undefined"

\* The format checks of validateField and what follows them, for a value that is
\* not empty: email, mobile, url.  value.replace is a TypeError for a value that
\* is no string.
FromEmail(value, rules) ==
    LET str == String(value)
    IN  IF (TypeOf(rules) = "email" \/ Rule(rules, "email")) /\ ~patterns_email(str)
        THEN Invalid(messages.email)
        ELSE IF (TypeOf(rules) = "mobile" \/ Rule(rules, "mobile")) /\ value.t # "string"
        THEN TypeError
        ELSE IF /\ TypeOf(rules) = "mobile" \/ Rule(rules, "mobile")
                /\ ~patterns_mobile(SelectSeq(str, LAMBDA c : c \in Digit))
        THEN Invalid(messages.mobile)
        ELSE IF (TypeOf(rules) = "url" \/ Rule(rules, "url")) /\ ~patterns_url(str)
        THEN Invalid(messages.url)
        ELSE FromMinLength(value, rules)

validateFieldNoSkip(value, rules, allValues) ==
    IF Rule(rules, "required") /\ isEmpty(value)
    THEN Invalid(ErrorMessageOr(rules, messages.required))
    ELSE IF isEmpty(value)
    THEN Valid
    ELSE FromEmail(value, rules)

\* Validation.validateField
validateField(value, rules, allValues) ==
    IF /\ "conditionalLogic" \in DOMAIN rules
       /\ Rule(rules.conditionalLogic, "enabled")
       /\ ~evaluateCondition(rules.conditionalLogic, allValues)
    THEN Valid
    ELSE IF Rule(rules, "required") /\ isEmpty(value)
    THEN Invalid(ErrorMessageOr(rules, messages.required))
    ELSE IF isEmpty(value)
    THEN Valid
    ELSE FromEmail(value, rules)

\* The rules validateForm hands to validateField for a field: its type, required
\* flag and conditional logic, with the keys of its validation record over them.
RulesOf(field) ==
    LET own == [k \in {"type", "required", "conditionalLogic"} \cap DOMAIN field |-> field[k]]
    IN  IF "validation" \in DOMAIN field THEN Spread(own, field.validation) ELSE own

RECURSIVE validateFormFrom(_, _, _)
\* The loop of validateForm from field i on: the first exception ends it.
validateFormFrom(values, fields, i) ==
    IF i > Len(fields)
    THEN [valid |-> TRUE, errors |-> << >>]
    ELSE LET collect(field, result, rest) ==
                 IF "throws" \in DOMAIN result THEN result
                 ELSE IF "throws" \in DOMAIN rest THEN rest
                 ELSE IF result.valid THEN rest
                 ELSE [valid |-> FALSE,
                       errors |-> [k \in DOMAIN rest.errors \cup {field.id} |->
                                     IF k \in DOMAIN rest.errors THEN rest.errors[k]
                                     ELSE result.error]]
             check(field) ==
                 collect(field,
                         validateField(ValueOf(values, field.id), RulesOf(field), values),
                         validateFormFrom(values, fields, i + 1))
         IN  check(fields[i])

\* Validation.validateForm
validateForm(values, fields) == validateFormFrom(values, fields, 1)

(***************************************************************************)
(* The state machine.  Every action is one call, run to completion (the    *)
(* page is single-threaded).  localStorage.setItem throws when the quota   *)
(* is exceeded or storage is disabled; whether it does is fixed for a run  *)
(* of the page.                                                            *)
(***************************************************************************)
\* The Properties object before Properties.init, with what its rendered inputs hold:
\* the field object their handlers have captured and the debounced edits pending.
Properties == [currentElement |-> "null", field |-> << >>, timers |-> << >>]

\* The Modal object before a modal is shown: whether the overlay is active and
\* the callbacks stored, with the promise showPublishModal made ("none" before
\* there is one, "pending", or the value it is resolved with), whether the timer
\* that adds the click handlers of the options is pending, and whether the
\* options shown have them.
Modal ==
    [active |-> FALSE, callbacks |-> << >>, promise |-> "none", timer |-> FALSE,
     options |-> FALSE]

\* No more toasts than this are shown on a page.
MaxShown == 7

\* The Toast object before a toast is shown: the queue, the Map activeToasts in
\* insertion order, the number of ids generated, and the timers set by setTimeout
\* and not yet run, in the order they were set.
Toast == [queue |-> << >>, activeToasts |-> << >>, shown |-> 0, timers |-> << >>]

\* The persisted items a page load may find: none, or a project saved earlier.
SavedItems == { << >>, << [InitialState EXCEPT !.settings.theme = "dark"] >> }

\* A project of two steps saved with the second one active.
TwoSteps ==
    [InitialState EXCEPT !.steps = Append(@, [id |-> "step_1", name |-> "Step 2",
                                              fields |-> << >>]),
                         !.currentStep = 1]

\* The same project saved with a mobile number field in its second step.
SavedForm ==
    [TwoSteps EXCEPT !.steps[2].fields =
        << Spread([id |-> "field_1", type |-> "mobile"], getFieldDefaults("mobile")) >>]

\* The page as loaded, before App.init, with one of items in localStorage.
Page(items) ==
    /\ state = InitialState
    /\ history = << >>
    /\ historyIndex = -1
    /\ listeners = << >>
    /\ storage \in items
    /\ aliased = {}
    /\ effects = << >>
    /\ ret = "undefined"
    /\ last = [op |-> "none", historyIndex |-> -1, length |-> 0]
    /\ initialized = FALSE
    /\ writable \in BOOLEAN
    /\ dataTheme = "null"
    /\ properties = Properties
    /\ modal = Modal
    /\ toast = Toast

\* The page as loaded, with no call of Validation made.
Loaded(items) == Page(items) /\ validated = [op |-> "none"]

Init == Loaded(SavedItems)

\* The page as loaded when a project of two steps may have been saved.
InitNav == Loaded(SavedItems \cup {<<TwoSteps>>})

\* The page as loaded when a project with a field may have been saved.
InitEdit == Loaded(SavedItems \cup {<<TwoSteps>>, <<SavedForm>>})

\* The bounds of the model, on the object a call leaves behind.
Fits(R, cap) == R.historyIndex < cap

Call(R, cap) ==
    /\ initialized
    /\ Fits(R, cap)
    /\ Becomes(R)
    /\ UNCHANGED <<initialized, writable, validated, dataTheme, components>>

\* The last steps of App.init: initTheme(), then AppState.init().
CallInit ==
    /\ ~initialized
    /\ Len(listeners) = Len(Listeners)
    /\ dataTheme' = initTheme(Begin("init"))
    /\ Becomes(init(Begin("init")))
    /\ initialized' = TRUE
    /\ UNCHANGED <<writable, validated, components>>

\* App.init sets the components up, each subscribing in turn, before AppState.init.
CallSubscribe ==
    /\ ~initialized
    /\ Len(listeners) < Len(Listeners)
    /\ Becomes(subscribe(Begin("subscribe"), Listeners[Len(listeners) + 1]))
    /\ UNCHANGED <<initialized, writable, validated, dataTheme, components>>

CallUndo == Call(undo(Begin("undo"), writable), maxHistorySize)

CallRedo == Call(redo(Begin("redo"), writable), maxHistorySize)

CallReset == Call(reset(Begin("reset")), maxHistorySize)

CallAddStep(cap) == \E name \in StepNames : Call(addStep(Begin("addStep"), name, writable), cap)

CallUpdateStep(cap) ==
    \E stepIndex \in StepIndices :
        Call(updateStep(Begin("updateStep"), stepIndex, [name |-> "Intro"], writable), cap)

CallDeleteStep(cap) ==
    \E stepIndex \in StepIndices : Call(deleteStep(Begin("deleteStep"), stepIndex, writable), cap)

CallReorderSteps(cap) ==
    \E fromIndex \in StepIndices, toIndex \in StepIndices :
        Call(reorderSteps(Begin("reorderSteps"), fromIndex, toIndex, writable), cap)

CallSetCurrentStep(cap) ==
    \E index \in StepIndices : Call(setCurrentStep(Begin("setCurrentStep"), index, writable), cap)

CallAddField(cap) ==
    \E type \in FieldTypes : Call(addField(Begin("addField"), type, << >>, writable), cap)

CallDeleteField(cap) ==
    \E fieldId \in ElementIds : Call(deleteField(Begin("deleteField"), fieldId, writable), cap)

CallSelectElement ==
    \E elementId \in ElementIds :
        Call(selectElement(Begin("selectElement"), elementId, writable), maxHistorySize)

CallSwitchView ==
    \E view \in Views : Call(switchView(Begin("switchView"), view, writable), maxHistorySize)

CallUpdateHeaderTitle(cap) ==
    \E bold \in BOOLEAN :
        Call(updateHeaderTitle(Begin("updateHeaderTitle"), [bold |-> bold], writable), cap)

\* AppState.toggleTheme sets data-theme to the theme it has switched to.
CallToggleTheme(cap) ==
    LET R == toggleTheme(Begin("toggleTheme"), writable)
    IN  /\ initialized
        /\ Fits(R, cap)
        /\ Becomes(R)
        /\ dataTheme' = IF R.ret = "throw" THEN dataTheme ELSE R.state.settings.theme
        /\ UNCHANGED <<initialized, writable, validated, components>>

CallImportJSON(cap) ==
    \E json \in ImportInputs : Call(importJSON(Begin("importJSON"), json, writable), cap)

\* The commands that go through setState with a history entry.
Committing(cap) ==
    \/ CallAddStep(cap)
    \/ CallUpdateStep(cap)
    \/ CallDeleteStep(cap)
    \/ CallReorderSteps(cap)
    \/ CallSetCurrentStep(cap)
    \/ CallAddField(cap)
    \/ CallDeleteField(cap)
    \/ CallUpdateHeaderTitle(cap)
    \/ CallToggleTheme(cap)
    \/ CallImportJSON(cap)

\* Every command, with undo, redo and reset.
Next ==
    \/ CallInit
    \/ CallSubscribe
    \/ CallUndo
    \/ CallRedo
    \/ CallReset
    \/ Committing(MaxHist)

Spec == Init /\ [][Next]_vars

(***************************************************************************)
(* The calls of Validation.  The arguments are drawn from the values a     *)
(* form can submit and the rules a field can carry.                        *)
(***************************************************************************)
\* Strings a visitor can type.
Typed ==
    {<< >>, <<" ">>, <<" ", "\t">>,
     <<"9", "8", "-", "7", "6", "5", "-", "4", "3", "2", "1", "0">>, <<"1", "2", "3", "4", "5">>, <<"0", "1", "2", "3", "4", "5", "6", "7", "8", "9">>,
     <<"a", "b", "c">>, <<"x">>, <<"1", "0", "p", "x">>, <<"a", "b", "1">>,
     <<"a", "@", "b", ".", "c", "o">>, <<"a", ".", "c", "o">>, <<"5", "6", "0", "0", "0", "1">>,
     <<"2", "2", "A", "A", "A", "A", "A", "0", "0", "0", "0", "A", "1", "Z", "5">>, <<"2", "2", "a", "a", "a", "a", "a", "0", "0", "0", "0", "a", "1", "z", "5">>, <<"A", "B", "C", "D", "E", "1", "2", "3", "4", "F">>}

\* What a form can submit for a field: nothing, a string, a number, a checked
\* box, the list of the options selected.
Submitted ==
    {undefinedValue}
        \cup {StringValue(str) : str \in Typed}
        \cup {NumberValue(n) : n \in {0, 5, 12345}}
        \cup {[t |-> "boolean", b |-> TRUE]}
        \cup {[t |-> "array", a |-> a] : a \in {<< >>, <<<<"a">>>>, <<<<"a">>, <<"b">>>>}}

\* One rule, or none.
OneRule ==
    {<< >>, [email |-> TRUE], [mobile |-> TRUE], [url |-> TRUE],
     [minLength |-> 3], [maxLength |-> 10], [min |-> 10], [max |-> 3],
     [pattern |-> "^[A-Za-z]+$"], [pattern |-> "["],
     [gst |-> TRUE], [pan |-> TRUE], [pincode |-> TRUE],
     [alphanumeric |-> TRUE], [alpha |-> TRUE], [numeric |-> TRUE]}

\* Whether a value is asked for, and with which message.
Requirements ==
    {<< >>, [required |-> FALSE], [required |-> TRUE],
     [required |-> TRUE, errorMessage |-> "Only letters allowed"]}

\* The rule sets handed to validateField: up to two rules, for a field of no
\* stated type or of type mobile.
RuleSets ==
    {Spread(Spread(Spread(t, r), a), b) :
        t \in {<< >>, [type |-> "mobile"]}, r \in Requirements, a \in OneRule, b \in OneRule}

\* The operators of the conditional logic editor.
Operators ==
    {"equals", "not_equals", "contains", "not_contains", "not_empty", "empty",
     "greater_than", "less_than", "starts_with", "ends_with"}

\* What the trigger field of a condition can hold.
Triggers ==
    {undefinedValue, [t |-> "null"],
     [t |-> "boolean", b |-> TRUE], [t |-> "boolean", b |-> FALSE],
     [t |-> "array", a |-> <<<<"x">>>>]}
        \cup {StringValue(str) : str \in {<< >>, <<"x">>, <<"y">>, <<"a", "x", "b">>, <<"0">>,
                                          <<"5">>, <<"7">>, <<"1", "0", "p", "x">>}}
        \cup {NumberValue(n) : n \in {0, 5, 7, 10}}

\* The value mappings handed to evaluateCondition: the trigger field f1 is not
\* there, or holds one of Triggers.
TriggerValues == {<< >>} \cup {[f1 |-> v] : v \in Triggers}

\* The comparison values of a condition: what the editor stores, a string, and
\* what an imported schema can hold, a number.
ConditionValues ==
    {StringValue(str) : str \in {<< >>, <<"x">>, <<"0">>, <<"5">>, <<"1", "0", "p", "x">>}}
        \cup {NumberValue(5)}

\* The conditions handed to evaluateCondition: none, {}, a disabled one, and an
\* enabled one for every trigger, operator (known, unknown or missing) and value
\* (given or missing).
Conditions ==
    {undefinedValue, << >>,
     [enabled |-> FALSE, field |-> "f1", operator |-> "equals", value |-> StringValue(<<"x">>)],
     [enabled |-> TRUE, field |-> "f1"]}
        \cup {[enabled |-> TRUE, field |-> f, operator |-> op, value |-> v] :
                 f \in {"", "f1"}, op \in Operators \cup {"matches"}, v \in ConditionValues}
        \cup {[enabled |-> TRUE, field |-> "f1", operator |-> op] :
                 op \in Operators \cup {"matches"}}

\* The conditional logic of the fields that are validated.
FieldConditions ==
    {[enabled |-> FALSE],
     [enabled |-> FALSE, field |-> "f1", operator |-> "equals", value |-> StringValue(<<"x">>)]}
        \cup {[enabled |-> TRUE, field |-> "f1", operator |-> op, value |-> StringValue(str)] :
                 op \in {"equals", "not_equals", "contains", "greater_than", "empty"},
                 str \in {<<"x">>, <<"5">>}}

\* A field as addField(type, overrides) makes it, with the id given.
Field(id, type, overrides) ==
    Spread(Spread([id |-> id, type |-> type], getFieldDefaults(type)), overrides)

\* The forms handed to validateForm: a text field f1 and after it a field f2 of
\* either type, asked for or not, with or without conditional logic on f1.
Forms ==
    {<<Field("f1", "text", << >>), Field("f2", type, Spread(r, c))>> :
        type \in FieldTypes,
        r \in {<< >>, [required |-> TRUE]},
        c \in {<< >>} \cup {[conditionalLogic |-> cond] : cond \in FieldConditions}}

\* What is submitted for such a form.
FormValues ==
    {Spread(a, b) :
        a \in {<< >>} \cup {[f1 |-> StringValue(str)] : str \in {<<"x">>, <<"y">>, <<"5">>}},
        b \in {<< >>} \cup {[f2 |-> v] :
                 v \in {StringValue(<< >>), StringValue(<<"9", "8", "-", "7", "6", "5", "-", "4", "3", "2", "1", "0">>),
                        StringValue(<<"1", "2", "3", "4", "5">>), StringValue(<<"0", "1", "2", "3", "4", "5", "6", "7", "8", "9">>),
                        NumberValue(12345)}}}

\* The calls of validateField: validateField(value, rules), where allValues is {}
\* by default, and validateField(value, rules, allValues) for rules with
\* conditional logic.
FieldCalls ==
    {[op |-> "validateField", value |-> value, rules |-> rules, allValues |-> << >>] :
        value \in Submitted, rules \in RuleSets}
    \cup
    {[op |-> "validateField", value |-> value,
      rules |-> Spread(rules, [conditionalLogic |-> cond]), allValues |-> allValues] :
        value \in {undefinedValue, StringValue(<< >>), StringValue(<<"a", "b", "c">>),
                   StringValue(<<"1", "2", "3", "4", "5">>), NumberValue(5)},
        rules \in {[required |-> TRUE], [required |-> TRUE, type |-> "mobile"],
                   [minLength |-> 3], [gst |-> TRUE]},
        cond \in FieldConditions,
        allValues \in FormValues}

\* The calls of validateForm and of evaluateCondition.
FormCalls ==
    {[op |-> "validateForm", values |-> values, fields |-> fields] :
        values \in FormValues, fields \in Forms}

ConditionCalls ==
    {[op |-> "evaluateCondition", condition |-> condition, values |-> values] :
        condition \in Conditions, values \in TriggerValues}

\* A call of Validation that has not returned yet.
Pending(op) == validated.op = op /\ "result" \notin DOMAIN validated

\* The call returns result (or throws, when result says so).
Returns(result) ==
    /\ validated' = Spread(validated, [result |-> result])
    /\ UNCHANGED <<state, history, historyIndex, listeners, storage, aliased, effects,
                   ret, last, initialized, writable, dataTheme, components>>

\* Validation.validateField(value, rules, allValues)
CallValidateField ==
    /\ Pending("validateField")
    /\ Returns(validateField(validated.value, validated.rules, validated.allValues))

\* Validation.validateForm(values, fields)
CallValidateForm ==
    /\ Pending("validateForm")
    /\ Returns(validateForm(validated.values, validated.fields))

\* Validation.evaluateCondition(condition, values)
CallEvaluateCondition ==
    /\ Pending("evaluateCondition")
    /\ Returns(evaluateCondition(validated.condition, validated.values))

\* The validator and the evaluator, each call run to its end.
NextValidate ==
    \/ CallValidateField
    \/ CallValidateForm
    \/ CallEvaluateCondition

\* The page as loaded with nothing saved, and a call of Validation about to be made.
InitValidate ==
    /\ Page({<< >>})
    /\ validated \in FieldCalls \cup FormCalls \cup ConditionCalls

SpecValidate == InitValidate /\ [][NextValidate]_vars

\* Selection and view changes, which make no history entry, among theme changes.
NextLook ==
    \/ CallInit
    \/ CallSubscribe
    \/ CallUndo
    \/ CallRedo
    \/ CallReset
    \/ CallSelectElement
    \/ CallSwitchView
    \/ CallToggleTheme(MaxHist + 1)

SpecLook == Init /\ [][NextLook]_vars

\* The commands on the steps array, one snapshot deeper.
NextSteps ==
    \/ CallInit
    \/ CallSubscribe
    \/ CallUndo
    \/ CallRedo
    \/ CallReset
    \/ CallAddStep(MaxHist + 1)
    \/ CallDeleteStep(MaxHist + 1)
    \/ CallReorderSteps(MaxHist + 1)
    \/ CallImportJSON(MaxHist + 1)

SpecSteps == Init /\ [][NextSteps]_vars

\* The history at full depth: the theme is toggled until the window slides.
NextDeep ==
    \/ CallInit
    \/ CallSubscribe
    \/ CallUndo
    \/ CallRedo
    \/ CallToggleTheme(maxHistorySize + 1)

SpecDeep == Init /\ [][NextDeep]_vars

\* The ids of the fields of a document.
FieldIds(doc) ==
    UNION {{doc.steps[k].fields[j].id : j \in 1..Len(doc.steps[k].fields)} :
             k \in 1..Len(doc.steps)}

\* What the properties panel and the drop handlers pass as partial field data.
Overrides == {<< >>, [label |-> "Phone", required |-> TRUE]}

\* The schemas handed to importJSON whose fields carry ids: one with two fields
\* of different ids, one in which a field was copied together with its id.
SchemasWithIds ==
    {[parse |-> "object",
      data |-> [steps |-> [array |-> TRUE,
                           items |-> << [step_name |-> "Contact",
                                         fields |-> << [id |-> "a", type |-> "text",
                                                        label |-> "Name"],
                                                       [id |-> other, type |-> "text",
                                                        label |-> "Name"] >>] >>]]] :
        other \in {"a", "b"}}

CallAddFieldWith(cap) ==
    \E type \in FieldTypes, config \in Overrides :
        Call(addField(Begin("addField"), type, config, writable), cap)

CallAddFieldAt(cap) ==
    \E type \in FieldTypes, index \in StepIndices, config \in Overrides :
        Call(addFieldAt(Begin("addFieldAt"), type, index, config, writable), cap)

\* The duplicate button of a field card of the active step.
CallDuplicate(cap) ==
    /\ HasStep(state.steps, state.currentStep)
    /\ \E j \in 0..(Len(state.steps[state.currentStep + 1].fields) - 1) :
          Call(handleDuplicate(Begin("handleDuplicate"), j, writable), cap)

CallUpdateField(cap) ==
    \E fieldId \in ElementIds \cup FieldIds(state), updates \in Overrides :
        Call(updateField(Begin("updateField"), fieldId, updates, writable), cap)

CallDeleteAnyField(cap) ==
    \E fieldId \in ElementIds \cup FieldIds(state) :
        Call(deleteField(Begin("deleteField"), fieldId, writable), cap)

CallImportSchema(cap) ==
    \E json \in SchemasWithIds : Call(importJSON(Begin("importJSON"), json, writable), cap)

\* The commands on fields, with the ones that rename, select and move steps.
NextFields ==
    \/ CallInit
    \/ CallSubscribe
    \/ CallUndo
    \/ CallRedo
    \/ CallAddFieldWith(MaxHist)
    \/ CallAddFieldAt(MaxHist)
    \/ CallDuplicate(MaxHist)
    \/ CallUpdateField(MaxHist)
    \/ CallDeleteAnyField(MaxHist)
    \/ CallUpdateStep(MaxHist)
    \/ CallSetCurrentStep(MaxHist)
    \/ CallReorderSteps(MaxHist)
    \/ CallImportSchema(MaxHist)

SpecFields == InitEdit /\ [][NextFields]_vars

\* Editing the fields and steps of a project in place.
NextEdit ==
    \/ CallInit
    \/ CallSubscribe
    \/ CallUndo
    \/ CallRedo
    \/ CallAddField(MaxHist)
    \/ CallUpdateField(MaxHist)
    \/ CallDeleteAnyField(MaxHist)
    \/ CallUpdateStep(MaxHist)
    \/ CallSetCurrentStep(MaxHist)
    \/ CallReorderSteps(MaxHist)

SpecEdit == InitEdit /\ [][NextEdit]_vars

\* Drag and drop of a field card within the active step.
CallReorderFields(cap) ==
    \E fromIndex \in StepIndices, toIndex \in StepIndices :
        Call(reorderFields(Begin("reorderFields"), fromIndex, toIndex, writable), cap)

\* What selectedElement may name: nothing, a part of the header, or a field.
SelectableIds(doc) == {"null", "header", "title", "description"} \cup FieldIds(doc)

\* Canvas click handlers: selectElement with a part of the header or a field shown.
CallSelectShown ==
    \E elementId \in SelectableIds(state) :
        Call(selectElement(Begin("selectElement"), elementId, writable), maxHistorySize)

\* Selecting, adding and deleting fields, and deleting steps.
NextSel ==
    \/ CallInit
    \/ CallSubscribe
    \/ CallUndo
    \/ CallRedo
    \/ CallReset
    \/ CallSelectShown
    \/ CallAddField(MaxHist + 1)
    \/ CallDeleteField(MaxHist + 1)
    \/ CallDeleteStep(MaxHist + 1)
    \/ CallImportJSON(MaxHist + 1)

SpecSel == InitNav /\ [][NextSel]_vars

(***************************************************************************)
(* The toasts.                                                             *)
(***************************************************************************)
maxToasts == 5
defaultDuration == 4000

\* No more removal callbacks than MaxRemovals are pending, and the user clicks a
\* close button only while fewer than MaxClosing are.
MaxRemovals == 5
MaxClosing == 1

\* const { duration, closable } = options, as createToast reads them: undefined
\* is neither positive nor true.
Positive(options) == "duration" \in DOMAIN options /\ options.duration > 0
Closable(options) == "closable" \in DOMAIN options /\ options.closable

\* Toast.createToast
createToast(T, id, options) ==
    [T EXCEPT !.activeToasts = Append(@, [id |-> id, closable |-> Closable(options)]),
              !.timers = IF Positive(options)
                         THEN Append(@, [fn |-> "dismiss", id |-> id,
                                         delay |-> options.duration])
                         ELSE @]

\* Toast.show; the ids generated are 1, 2, ... in this order.  What is queued is
\* the options object as the caller passed it.
show(T, options) ==
    LET id == T.shown + 1
        given(key, default) == IF key \in DOMAIN options THEN options[key] ELSE default
        T1 == [T EXCEPT !.shown = id]
    IN  IF Len(T.activeToasts) >= maxToasts
        THEN [T1 EXCEPT !.queue = Append(@, [id |-> id, options |-> options])]
        ELSE createToast(T1, id, [type |-> given("type", "info"),
                                  duration |-> given("duration", defaultDuration),
                                  closable |-> given("closable", TRUE)])

\* Toast.success and Toast.error (the title and the message play no part)
success(T) == show(T, [type |-> "success"])
error(T) == show(T, [type |-> "error", duration |-> 6000])

\* activeToasts.get(id) is defined
IsActive(T, id) == \E i \in 1..Len(T.activeToasts) : T.activeToasts[i].id = id

\* Toast.dismiss: a removal callback is set for 300 ms later.
dismiss(T, id) ==
    IF ~IsActive(T, id) THEN T
    ELSE [T EXCEPT !.timers = Append(@, [fn |-> "removal", id |-> id, delay |-> 300])]

\* The callback dismiss sets.
removal(T, id) ==
    LET T1 == [T EXCEPT !.activeToasts = SelectSeq(@, LAMBDA toastEl : toastEl.id # id)]
    IN  IF Len(T1.queue) > 0
        THEN createToast([T1 EXCEPT !.queue = Tail(@)], Head(T1.queue).id,
                         Head(T1.queue).options)
        ELSE T1

RECURSIVE DismissEach(_, _)
DismissEach(T, toasts) ==
    IF toasts = << >> THEN T
    ELSE DismissEach(dismiss(T, Head(toasts).id), Tail(toasts))

\* Toast.dismissAll
dismissAll(T) == [DismissEach(T, T.activeToasts) EXCEPT !.queue = << >>]

\* The removal callbacks pending.
Removals(T) == {j \in 1..Len(T.timers) : T.timers[j].fn = "removal"}

\* setTimeout: a timer may run when none set before it with the same or a
\* shorter delay is still pending.
Due(T, j) == \A i \in 1..(j - 1) : T.timers[i].delay > T.timers[j].delay

\* A handler of the page that has left the Toast object as T and called nothing
\* of AppState.
Toasted(T) ==
    /\ initialized
    /\ Cardinality(Removals(T)) <= MaxRemovals
    /\ toast' = T
    /\ UNCHANGED <<state, history, historyIndex, listeners, storage, aliased,
                   effects, ret, last, initialized, writable, validated,
                   dataTheme, properties, modal>>

CallSuccess == toast.shown < MaxShown /\ Toasted(success(toast))

CallError == toast.shown < MaxShown /\ Toasted(error(toast))

\* A timer of Toast runs: the auto-dismiss of a toast, or a removal callback.
RunToastTimer ==
    \E j \in 1..Len(toast.timers) :
        LET timer == toast.timers[j]
            T == [toast EXCEPT !.timers = FilterIndex(@, j - 1)]
        IN  /\ Due(toast, j)
            /\ Toasted(IF timer.fn = "dismiss" THEN dismiss(T, timer.id)
                       ELSE removal(T, timer.id))

\* A click on the close button of a toast.
ClickToastClose ==
    \E i \in 1..Len(toast.activeToasts) :
        /\ toast.activeToasts[i].closable
        /\ Cardinality(Removals(toast)) < MaxClosing
        /\ Toasted(dismiss(toast, toast.activeToasts[i].id))

CallDismissAll == Toasted(dismissAll(toast))

\* The page with nothing persisted and a storage that can be written.
InitToast == Loaded({<< >>}) /\ writable

\* Toasts shown, closed by the user and dismissed by their timers.
NextToast ==
    \/ CallInit
    \/ CallSubscribe
    \/ CallSuccess
    \/ RunToastTimer
    \/ ClickToastClose
    \/ CallDismissAll

SpecToast == InitToast /\ [][NextToast]_vars

\* Toasts of both kinds left to their timers.
NextTimed ==
    \/ CallInit
    \/ CallSubscribe
    \/ CallSuccess
    \/ CallError
    \/ RunToastTimer

\* The event loop runs every timer that is due.
SpecTimed == InitToast /\ [][NextTimed]_vars /\ WF_vars(RunToastTimer)

(***************************************************************************)
(* The properties panel.  An object that may be null is a sequence of at   *)
(* most one element, as the stored item is.                                *)
(***************************************************************************)
\* AppState.getField.  (The projects edited in the panel have no holes in their
\* steps.)
getField(A, fieldId) ==
    LET steps == A.state.steps
        k == StepOfField(steps, fieldId)
    IN  IF k = 0 THEN << >>
        ELSE << steps[k].fields[FieldIndex(steps[k].fields, fieldId)] >>

\* The elements of the page that are not fields.
Special == {"header", "title", "description"}

\* AppState.getSelectedElement
getSelectedElement(A) ==
    LET selected == A.state.selectedElement
    IN  IF selected = "null" THEN << >>
        ELSE IF selected \in Special THEN << [type |-> selected, id |-> selected] >>
        ELSE getField(A, selected)

\* Properties.showPageSettings: the inputs of a field are gone.
showPageSettings(P) == [P EXCEPT !.field = << >>]

\* Properties.updatePanel: showFieldProperties(element) renders the inputs of a
\* field, and their handlers keep the element they were rendered for; the other
\* views have no such inputs.
updatePanel(P, A) ==
    LET element == getSelectedElement(A)
    IN  IF element = << >> \/ element[1].type \in Special
        THEN showPageSettings(P)
        ELSE [P EXCEPT !.field = element]

\* The listener Properties.init subscribes.
PropertiesListener(P, A) ==
    IF A.state.selectedElement # P.currentElement
    THEN updatePanel([P EXCEPT !.currentElement = A.state.selectedElement], A)
    ELSE P

\* The panel after a call of AppState that has left R: the listener has run if
\* the call notified it.
Heard(P, R) ==
    IF \E i \in 1..Len(R.effects) :
          R.effects[i].ev = "notify" /\ R.effects[i].to = "properties"
    THEN PropertiesListener(P, R)
    ELSE P

\* parseInt(text), for the text of an input.
parseInt(text) ==
    LET number == parseFloat(StringValue(text))
    IN  IF number.nan THEN "NaN" ELSE number.n

\* The inputs of the validation section and what is typed into them.
ValidationEdits ==
    {[input |-> "maxLength", text |-> <<"2", "0">>],
     [input |-> "minLength", text |-> <<"3">>],
     [input |-> "pattern",   text |-> <<"^", "a">>]}

\* The edits typed and not yet applied are never more than this.
MaxPending == 2

\* field.validation || {}
ValidationOf(field) == IF "validation" \in DOMAIN field THEN field.validation ELSE << >>

\* Helpers.debounce, as setupValidationSection uses it: typing into an input
\* clears the timer that input has pending and sets a new one.  A timer holds
\* the field its handler was rendered for.  (Two renderings of one field object
\* are not told apart.)
debounce(P, input, text) ==
    LET field == P.field[1]
        others == SelectSeq(P.timers, LAMBDA t : ~(t.input = input /\ t.field = field))
    IN  [P EXCEPT !.timers = Append(others, [input |-> input, text |-> text,
                                             field |-> field])]

\* The handlers of setupValidationSection, run by a timer.
validationInput(A, timer, ok) ==
    LET entered == IF timer.text = << >> THEN "null"
                   ELSE IF timer.input = "pattern" THEN timer.text
                   ELSE parseInt(timer.text)
        newValidation == Spread(ValidationOf(timer.field),
                                [k \in {timer.input} |-> entered])
    IN  updateField(A, timer.field.id, [validation |-> newValidation], ok)

\* A handler of the page that has called AppState, leaving R, and the panel as P.
Shown(R, P, cap) ==
    /\ initialized
    /\ Fits(R, cap)
    /\ Becomes(R)
    /\ properties' = P
    /\ UNCHANGED <<initialized, writable, validated, dataTheme, modal, toast>>

\* Canvas: a click on a field card selects it and has the panel rendered.
ClickField ==
    \E fieldId \in FieldIds(state) :
        LET R == selectElement(Begin("selectElement"), fieldId, writable)
        IN  Shown(R, updatePanel(Heard(properties, R), R), maxHistorySize)

\* The close button of the panel.
ClickClose ==
    LET R == selectElement(Begin("selectElement"), "null", writable)
    IN  Shown(R, showPageSettings(Heard(properties, R)), maxHistorySize)

\* The user types into an input of the validation section.
TypeValidation ==
    \E edit \in ValidationEdits :
        /\ initialized
        /\ properties.field # << >>
        /\ Len(debounce(properties, edit.input, edit.text).timers) <= MaxPending
        /\ properties' = debounce(properties, edit.input, edit.text)
        /\ UNCHANGED <<state, history, historyIndex, listeners, storage, aliased,
                       effects, ret, last, initialized, writable, validated,
                       dataTheme, modal, toast>>

\* The timers run in the order they were set (all are set for 300 ms).
RunTimer(cap) ==
    /\ properties.timers # << >>
    /\ LET R == validationInput(Begin("updateField"), Head(properties.timers), writable)
       IN  Shown(R, [Heard(properties, R) EXCEPT !.timers = Tail(@)], cap)

\* Editing the validation rules of the fields of a saved project in the panel.
NextPanel ==
    \/ CallInit
    \/ CallSubscribe
    \/ ClickField
    \/ ClickClose
    \/ TypeValidation
    \/ RunTimer(MaxHist + 1)

SpecPanel == InitEdit /\ [][NextPanel]_vars

(***************************************************************************)
(* The publish modal.  A callback is the value it resolves the promise     *)
(* with.                                                                   *)
(***************************************************************************)
\* data-action of the options of the publish modal
PublishActions == {"download", "copy", "json", "preview"}

\* resolve(value) of the promise of showPublishModal: a settled promise stays as
\* it is.
resolve(M, value) == IF M.promise = "pending" THEN [M EXCEPT !.promise = value] ELSE M

\* Modal.show: the callbacks given are stored and the overlay is made active.
modalShow(M, callbacks) == [M EXCEPT !.callbacks = callbacks, !.active = TRUE]

\* Modal.showPublishModal: a new promise, the modal shown with onCancel: () =>
\* resolve(null), new options in the body, and the timer of 100 ms set.
showPublishModal(M) ==
    [modalShow([M EXCEPT !.promise = "pending"], [onCancel |-> "null"])
        EXCEPT !.options = FALSE, !.timer = TRUE]

\* Modal.close: onClose, then onCancel, when they are there.
close(M) ==
    LET M1 == [M EXCEPT !.active = FALSE]
        M2 == IF "onClose" \in DOMAIN M1.callbacks
              THEN resolve(M1, M1.callbacks.onClose) ELSE M1
        M3 == IF "onCancel" \in DOMAIN M2.callbacks
              THEN resolve(M2, M2.callbacks.onCancel) ELSE M2
    IN  [M3 EXCEPT !.callbacks = << >>]

\* The click handler of an option: this.close(); resolve(action).
clickOption(M, action) == resolve(close(M), action)

\* App.handlePublish after its await, the promise resolved with action and the
\* modal left as M: nothing for null, a toast after a download or a copy, the
\* preview for 'preview'.
Published(M, action) ==
    /\ initialized
    /\ modal' = M
    /\ IF action = "preview"
       THEN LET R == switchView(Begin("switchView"), "preview", writable)
            IN  /\ Becomes(R)
                /\ properties' = Heard(properties, R)
                /\ UNCHANGED toast
       ELSE /\ toast' = IF action \in {"download", "copy", "json"}
                        THEN success(toast) ELSE toast
            /\ UNCHANGED <<state, history, historyIndex, listeners, storage, aliased,
                           effects, ret, last, properties>>
    /\ UNCHANGED <<initialized, writable, validated, dataTheme>>

\* The publish button: App.handlePublish up to its await.  (The modal is not
\* shown again while the timer of the one before is pending.)
ClickPublish ==
    /\ initialized
    /\ ~modal.active
    /\ ~modal.timer
    /\ modal' = showPublishModal(modal)
    /\ UNCHANGED <<state, history, historyIndex, listeners, storage, aliased,
                   effects, ret, last, initialized, writable, validated,
                   dataTheme, properties, toast>>

\* The timer of showPublishModal runs: the options get their click handlers.
RunModalTimer ==
    /\ modal.timer
    /\ modal' = [modal EXCEPT !.timer = FALSE, !.options = TRUE]
    /\ UNCHANGED <<state, history, historyIndex, listeners, storage, aliased,
                   effects, ret, last, initialized, writable, validated,
                   dataTheme, properties, toast>>

\* A click on an option of the open modal; handlePublish goes on with what the
\* promise was resolved with.
ClickOption ==
    \E action \in PublishActions :
        /\ modal.active
        /\ modal.options
        /\ Published(clickOption(modal, action), clickOption(modal, action).promise)

\* The close button, the cancel button, the overlay or Escape: Modal.close.
ClickModalClose ==
    /\ modal.active
    /\ Published(close(modal), close(modal).promise)

\* Publishing a project whose theme is being switched.
NextModal ==
    \/ CallInit
    \/ CallSubscribe
    \/ CallUndo
    \/ CallRedo
    \/ CallToggleTheme(MaxHist)
    \/ ClickPublish
    \/ RunModalTimer
    \/ ClickOption
    \/ ClickModalClose

SpecModal == Init /\ [][NextModal]_vars

\* Adding fields to the active step and moving them within it.
NextOrder ==
    \/ CallInit
    \/ CallSubscribe
    \/ CallUndo
    \/ CallRedo
    \/ CallAddField(MaxHist)
    \/ CallReorderFields(MaxHist)
    \/ CallSetCurrentStep(MaxHist)

SpecOrder == InitEdit /\ [][NextOrder]_vars

\* The commands that add, remove and move steps, with the one that changes the
\* active step.
NextNav ==
    \/ CallInit
    \/ CallSubscribe
    \/ CallUndo
    \/ CallRedo
    \/ CallReset
    \/ CallAddStep(MaxHist)
    \/ CallDeleteStep(MaxHist)
    \/ CallReorderSteps(MaxHist)
    \/ CallSetCurrentStep(MaxHist)
    \/ CallImportJSON(MaxHist)

SpecNav == InitNav /\ [][NextNav]_vars

(***************************************************************************)
(* What the calls are observed to do.                                      *)
(***************************************************************************)
\* The last call pushed a snapshot.
Saved == \E i \in 1..Len(effects) : effects[i].ev = "save"

\* The commands that go through setState with a history entry.
CommitOps ==
    {"addStep", "updateStep", "deleteStep", "reorderSteps", "setCurrentStep",
     "addField", "addFieldAt", "handleDuplicate", "updateField", "deleteField",
     "reorderFields",
     "updateHeaderTitle", "toggleTheme", "importJSON"}

\* The last call was a command, and it committed.
Committed == last.op \in CommitOps /\ Saved

\* The cursor was at the last snapshot when the last call began.
WasAtEnd == last.historyIndex = last.length - 1

\* The history was full, with the cursor at its end, when the last call began.
WasFull == last.length = maxHistorySize /\ WasAtEnd

\* C1: once init has run, 0 <= historyIndex < history.length <= maxHistorySize,
\* so that undo can succeed at most maxHistorySize - 1 times in a row.
C1_HistoryBounds ==
    initialized =>
        /\ 0 <= historyIndex
        /\ historyIndex < Len(history)
        /\ Len(history) <= maxHistorySize

\* An undo refused at the first snapshot of a full history.
C1_Witness ==
    /\ initialized
    /\ Len(history) = maxHistorySize
    /\ historyIndex = 0
    /\ last.op = "undo"
    /\ ret = "false"

\* C2: a commit keeps the snapshots up to the cursor, drops the ones after it and
\* appends the new state; after it the cursor is at the end and canRedo() is false.
C2_CommitDropsRedo ==
    [][Committed'
        => /\ history' = Append(SubSeq(history, 1, historyIndex + 1), state')
           /\ historyIndex' = Len(history') - 1
           /\ ~(historyIndex' < Len(history') - 1)]_vars

\* A commit made with the cursor before the end.
C2_Witness ==
    /\ Committed
    /\ ~WasAtEnd
    /\ Len(history) = last.historyIndex + 2

\* C3: a commit on a full history with the cursor at its end drops the oldest
\* snapshot and appends the new state: the length stays maxHistorySize and the
\* cursor stays on the last snapshot.
C3_WindowSlides ==
    [][(CallToggleTheme(maxHistorySize + 1)
            /\ Len(history) = maxHistorySize /\ historyIndex = maxHistorySize - 1)
        => /\ history' = Append(Tail(history), state')
           /\ Len(history') = maxHistorySize
           /\ historyIndex' = maxHistorySize - 1]_vars

\* A commit made on a full history.
C3_Witness ==
    /\ Committed
    /\ WasFull
    /\ history[maxHistorySize] = state

\* What undo() and then redo() leave.
UndoRedo == redo(undo(Self, writable), writable)

\* C4: right after a commit with a snapshot before it, undo() then redo() give back
\* the committed state, with the history and the cursor the commit left.
C4_UndoThenRedo ==
    (Committed /\ canUndo(Self)) =>
        /\ undo(Self, writable).ret = "true"
        /\ undo(Self, writable).state = history[historyIndex]
        /\ UndoRedo.ret = "true"
        /\ UndoRedo.state = state
        /\ UndoRedo.history = history
        /\ UndoRedo.historyIndex = historyIndex

\* Two different states committed one after the other, after the first snapshot.
C4_Witness ==
    /\ Committed
    /\ WasAtEnd
    /\ historyIndex >= 2
    /\ history[historyIndex] # history[historyIndex + 1]
    /\ UndoRedo.state = state

\* C5: undo() at the first snapshot and redo() at the last one return false and
\* change nothing: no listener is notified and nothing is written to storage.
C5_NothingToUndoOrRedo ==
    [][((CallUndo /\ historyIndex = 0) \/ (CallRedo /\ historyIndex = Len(history) - 1))
        => /\ ret' = "false"
           /\ effects' = << >>
           /\ UNCHANGED <<state, history, historyIndex, storage, listeners>>]_vars

\* An undo refused at the first of several snapshots.
C5_Witness ==
    /\ last.op = "undo"
    /\ last.historyIndex = 0
    /\ last.length > 1
    /\ ret = "false"
    /\ effects = << >>

\* What a call does after its state change: each listener is called once, in order,
\* with the new state, and then that state is written to storage.
NotifiedThenWritten ==
    LET done == SelectSeq(effects, LAMBDA e : e.ev # "save")
    IN  /\ done = [i \in 1..Len(listeners) |-> Event("notify", listeners[i], state, TRUE)]
                    \o <<Event("write", "", state, writable)>>
        /\ writable => storage = <<state>>

\* C6: a command that commits, and an undo or a redo that succeeds, calls every
\* listener exactly once with the new state and then writes that state to storage.
C6_NotifyThenPersist ==
    (Committed \/ (last.op \in {"undo", "redo"} /\ ret = "true")) => NotifiedThenWritten

\* A successful undo with all of the listeners subscribed and storage writable.
C6_Witness ==
    /\ last.op = "undo"
    /\ ret = "true"
    /\ Len(listeners) = Len(Listeners)
    /\ writable
    /\ NotifiedThenWritten

\* C7: selectElement(id), null included, pushes no snapshot and moves no cursor,
\* so canUndo() and canRedo() are what they were, and changes selectedElement only.
C7_SelectionNotInHistory ==
    [][CallSelectElement
        => /\ UNCHANGED <<history, historyIndex>>
           /\ canUndo(Self)' = canUndo(Self)
           /\ canRedo(Self)' = canRedo(Self)
           /\ state' = [state EXCEPT !.selectedElement = state'.selectedElement]]_vars

\* A selection the current snapshot does not have, made while a redo is available.
C7_Witness ==
    /\ last.op = "selectElement"
    /\ state.selectedElement # "null"
    /\ canRedo(Self)
    /\ history[historyIndex + 1].selectedElement # state.selectedElement

\* C8: a snapshot never changes once pushed: a call leaves the snapshots up to the
\* cursor as they are (one place down when the window slides), leaves all of them
\* as they are when it pushes nothing, and the live state shares no object with
\* the history.  reset() starts a new history.
C8_SnapshotsImmutable ==
    [][/\ aliased' = {}
       /\ ~Saved' => history' = history
       /\ (Saved' /\ last'.op # "reset") =>
            \A p \in 1..(historyIndex + 1) :
                IF Len(history) = maxHistorySize /\ historyIndex = maxHistorySize - 1
                THEN p = 1 \/ history'[p - 1] = history[p]
                ELSE history'[p] = history[p]]_vars

\* A field was added to a step of the live state while the first snapshot stays.
C8_Witness ==
    /\ last.op = "addField"
    /\ Committed
    /\ historyIndex = 1
    /\ Len(history[1].steps[1].fields) = 0
    /\ Len(state.steps[1].fields) = 1
    /\ aliased = {}

\* C9: once init has run the project has at least one step.
C9_AtLeastOneStep == initialized => Len(RealSteps(state.steps)) >= 1

\* C10: deleteStep on a project of one step returns without throwing and changes
\* nothing: steps, currentStep, selectedElement, history and cursor stay, and no
\* listener is notified.
C10_LastStepStays ==
    [][(CallDeleteStep(MaxHist) /\ Len(state.steps) <= 1)
        => /\ ret' = "undefined"
           /\ effects' = << >>
           /\ UNCHANGED <<state, history, historyIndex, storage>>]_vars

\* A deleteStep refused on a project of one step that has something to undo.
C10_Witness ==
    /\ last.op = "deleteStep"
    /\ effects = << >>
    /\ Len(state.steps) = 1
    /\ HasStep(state.steps, 0)
    /\ historyIndex >= 1

\* C11: once init has run, 0 <= currentStep < steps.length; deleteStep moves
\* currentStep to the last step when it pointed past the new end.
C11_CurrentStepInRange ==
    initialized => (0 <= state.currentStep /\ state.currentStep < Len(state.steps))

\* A deleteStep that left fewer steps than the active step's index needs.
C11_Witness ==
    /\ last.op = "deleteStep"
    /\ Committed
    /\ history[historyIndex].currentStep = Len(state.steps)
    /\ state.currentStep = Len(state.steps) - 1

\* C12: when selectElement is only given null, a part of the header or the id of
\* a field that exists, selectedElement is always null, a part of the header or
\* the id of a field that exists in some step.
C12_SelectionExists == initialized => state.selectedElement \in SelectableIds(state)

RECURSIVE getAllFields(_)
\* AppState.getAllFields, on the steps array: steps.flatMap(step => step.fields)
getAllFields(steps) ==
    IF steps = << >> THEN << >> ELSE Head(steps).fields \o getAllFields(Tail(steps))

\* C13: no two fields of the project, in one step or in two, have the same id.
C13_FieldIdsUnique ==
    initialized =>
        LET all == getAllFields(state.steps)
        IN  \A i, j \in 1..Len(all) : i # j => all[i].id # all[j].id

\* A call that did nothing: the object is as it was, nothing was saved, notified
\* or written.
Untouched(R) ==
    /\ R.state = state
    /\ R.history = history
    /\ R.historyIndex = historyIndex
    /\ R.storage = storage
    /\ R.effects = << >>

C15_DeleteStepOutOfRange ==
    [][\A i \in StepIndices :
          (/\ i < 0 \/ i >= Len(state.steps)
           /\ Len(state.steps) >= 2
           /\ Call(deleteStep(Begin("deleteStep"), i, writable), MaxHist))
          => UNCHANGED <<state, history, historyIndex>>]_vars

\* JSON.stringify of an object: a property whose value is undefined is left out.
\* texts are the properties that hold a string or undefined.
StringifyObject(obj, texts) ==
    [k \in {x \in DOMAIN obj : x \in texts => obj[x] # "undefined"} |-> obj[k]]

\* JSON.stringify of the state: an undefined entry of an array is written as null,
\* an undefined property is left out.
stringify(doc) ==
    [doc EXCEPT
        !.header.image = StringifyObject(@, {"url"}),
        !.steps = [k \in 1..Len(@) |->
                      IF @[k] = undefinedStep
                      THEN "null"
                      ELSE [@[k] EXCEPT !.fields =
                              [j \in 1..Len(@) |-> StringifyObject(@[j], {"type", "label"})]]]]

\* C16: updateField(id, {}) leaves the serialized live state as it is, for an id
\* that some field has and for one that none has, applied once or twice.
C16_EmptyUpdateKeepsState ==
    initialized =>
        \A id \in ElementIds \cup FieldIds(state) :
            LET once  == updateField(Begin("updateField"), id, << >>, writable)
                twice == updateField(once, id, << >>, writable)
            IN  /\ stringify(once.state) = stringify(state)
                /\ stringify(twice.state) = stringify(state)

\* An updateField that found its field and committed a state equal to the one before.
C16_Witness ==
    /\ last.op = "updateField"
    /\ Committed
    /\ FieldIds(state) # {}
    /\ stringify(state) = stringify(history[historyIndex])

\* R is what a call that adds a field leaves behind when the claim of C17 holds for
\* it: the step at currentStep has its fields as before with one new field of the
\* given type at position at (0-based), the other steps are as before, the new
\* field is selected, and one snapshot was pushed.
AddedOneField(R, type, at) ==
    LET cur == state.currentStep + 1
        old == state.steps[cur].fields
        new == R.state.steps[cur].fields
    IN  /\ R.ret = "object"
        /\ Len(R.state.steps) = Len(state.steps)
        /\ \A k \in 1..Len(state.steps) : k # cur => R.state.steps[k] = state.steps[k]
        /\ Len(new) = Len(old) + 1
        /\ SubSeq(new, 1, at) = SubSeq(old, 1, at)
        /\ SubSeq(new, at + 2, Len(new)) = SubSeq(old, at + 1, Len(old))
        /\ new[at + 1].type = type
        /\ R.state.selectedElement = new[at + 1].id
        /\ Cardinality({i \in 1..Len(R.effects) : R.effects[i].ev = "save"}) = 1
        /\ R.historyIndex = historyIndex + 1

\* C17: addField appends, and addFieldAt inserts at the index, exactly one new
\* field into the step at currentStep, leaves the other steps and the order of
\* the fields that were there, selects the new field and commits one history entry.
C17_AddFieldAddsOne ==
    (initialized /\ state.currentStep \in 0..(Len(state.steps) - 1)) =>
        LET fields == state.steps[state.currentStep + 1].fields
        IN  \A type \in FieldTypes, overrides \in Overrides :
               /\ AddedOneField(addField(Begin("addField"), type, overrides, writable),
                                type, Len(fields))
               /\ \A index \in 0..Len(fields) :
                     AddedOneField(addFieldAt(Begin("addFieldAt"), type, index, overrides,
                                              writable), type, index)

\* The text does not parse, or what it parses to is no schema: not an object, or
\* with steps that is no list or a list with a null in it.
Malformed(json) ==
    \/ json.parse # "object"
    \/ /\ Has(json.data, "steps")
       /\ \/ ~json.data.steps.array
          \/ \E i \in 1..Len(json.data.steps.items) : json.data.steps.items[i] = nullItem

\* C18: importJSON of a text that does not parse or of a malformed schema returns
\* false and leaves state, history and cursor as they were, with no notification.
C18_MalformedImportRejected ==
    initialized =>
        \A json \in ImportInputs :
            Malformed(json) =>
                LET R == importJSON(Begin("importJSON"), json, writable)
                IN  R.ret = "false" /\ Untouched(R)

(***************************************************************************)
(* Export.  ExportUtils.generateJSONSchema is the export collaborator's;   *)
(* it is written here from the description of the exchange schema: the     *)
(* top-level keys, each step with step_name and fields, each field echoing *)
(* its validation with snake_case keys and its conditional_logic.  Every   *)
(* validation rule of a field is echoed, those the description does not    *)
(* name under the name they have in the state.                             *)
(***************************************************************************)
\* The validation rules of a field, as the schema echoes them.
SchemaValidation(v) ==
    LET snake(k) == CASE k = "minLength" -> "min_length"
                      [] k = "maxLength" -> "max_length"
                      [] k = "errorMessage" -> "error_message"
                      [] OTHER -> k
        camel(k) == CASE k = "min_length" -> "minLength"
                      [] k = "max_length" -> "maxLength"
                      [] k = "error_message" -> "errorMessage"
                      [] OTHER -> k
    IN  [k \in {snake(x) : x \in DOMAIN v} |-> v[camel(k)]]

\* One field of the state, as the schema echoes it.
SchemaField(field) ==
    [k \in {IF x = "conditionalLogic" THEN "conditional_logic" ELSE x : x \in DOMAIN field} |->
        CASE k = "validation" -> SchemaValidation(field.validation)
          [] k = "conditional_logic" -> field.conditionalLogic
          [] OTHER -> field[k]]

\* ExportUtils.generateJSONSchema(state)
generateJSONSchema(doc) ==
    [schema_version |-> "1.0",
     project_name |-> doc.projectName,
     header_image |-> doc.header.image.url,
     header_image_height |-> doc.header.image.height,
     title |-> doc.header.title,
     description |-> doc.header.description,
     steps |-> [array |-> TRUE,
                items |-> [k \in 1..Len(doc.steps) |->
                             [step_name |-> doc.steps[k].name,
                              fields |-> [j \in 1..Len(doc.steps[k].fields) |->
                                            SchemaField(doc.steps[k].fields[j])]]]],
     settings |-> [webhook_url |-> doc.settings.webhookUrl,
                   submit_button_text |-> doc.settings.submitButtonText,
                   success_message |-> doc.settings.successMessage,
                   show_progress_bar |-> doc.settings.showProgressBar]]

\* AppState.exportJSON: the text JSON.stringify writes, given as what it parses to.
exportJSON(A) ==
    LET schema == generateJSONSchema(A.state)
    IN  [parse |-> "object",
         data |-> [k \in {x \in DOMAIN schema :
                            x = "header_image" => schema[x] # "undefined"} |-> schema[k]]]

\* Two documents have the same steps and fields in the same order, each field with
\* the same type, label, required flag, validation rules and conditional logic.
SameForm(a, b) ==
    /\ Len(a.steps) = Len(b.steps)
    /\ \A k \in 1..Len(a.steps) :
          /\ Len(a.steps[k].fields) = Len(b.steps[k].fields)
          /\ \A j \in 1..Len(a.steps[k].fields) :
                LET f == a.steps[k].fields[j]
                    g == b.steps[k].fields[j]
                IN  /\ f.type = g.type
                    /\ f.label = g.label
                    /\ f.required = g.required
                    /\ f.validation = g.validation
                    /\ f.conditionalLogic = g.conditionalLogic

\* C19: importJSON(exportJSON(state)) succeeds and gives the steps and fields of
\* state in the same order, each field with the same type, label, required flag,
\* validation rules and conditional logic (stated for a state whose steps are all
\* there).
C19_ExportImportRoundTrip ==
    (initialized /\ FirstHole(state.steps) = 0) =>
        LET R == importJSON(Begin("importJSON"), exportJSON(Self), writable)
        IN  R.ret = "true" /\ SameForm(R.state, state)

\* The notifications of a call, in order.
Notified(R) == SelectSeq(R.effects, LAMBDA e : e.ev = "notify")

\* F is a call whose storage write failed and T the same call with the write
\* succeeding: both leave the same state, history and cursor, notify the same
\* subscribers with the same state and return the same; F leaves the stored item
\* as it was, and nothing is thrown unless T throws too.
WriteFailureHarmless(F, T) ==
    /\ F.state = T.state
    /\ F.history = T.history
    /\ F.historyIndex = T.historyIndex
    /\ Notified(F) = Notified(T)
    /\ F.ret = T.ret
    /\ F.storage = storage
    /\ Len(F.effects) = Len(T.effects)

\* C20: when the storage write fails during a committing command, undo or redo,
\* the call completes as it does when the write succeeds: same state, history and
\* cursor, same notifications, same return value, no error.
C20_WriteFailureTolerated ==
    initialized =>
        /\ WriteFailureHarmless(undo(Begin("undo"), FALSE), undo(Begin("undo"), TRUE))
        /\ WriteFailureHarmless(redo(Begin("redo"), FALSE), redo(Begin("redo"), TRUE))
        /\ \A name \in StepNames :
              WriteFailureHarmless(addStep(Begin("addStep"), name, FALSE),
                                   addStep(Begin("addStep"), name, TRUE))
        /\ \A i \in StepIndices :
              /\ WriteFailureHarmless(deleteStep(Begin("deleteStep"), i, FALSE),
                                      deleteStep(Begin("deleteStep"), i, TRUE))
              /\ WriteFailureHarmless(setCurrentStep(Begin("setCurrentStep"), i, FALSE),
                                      setCurrentStep(Begin("setCurrentStep"), i, TRUE))
              /\ \A j \in StepIndices :
                    WriteFailureHarmless(reorderSteps(Begin("reorderSteps"), i, j, FALSE),
                                         reorderSteps(Begin("reorderSteps"), i, j, TRUE))
        /\ \A json \in ImportInputs :
              WriteFailureHarmless(importJSON(Begin("importJSON"), json, FALSE),
                                   importJSON(Begin("importJSON"), json, TRUE))

\* A command that committed and notified although its storage write failed.
C20_Witness ==
    /\ ~writable
    /\ Committed
    /\ historyIndex = last.historyIndex + 1
    /\ Len(Notified(Self)) = Len(Listeners)
    /\ \E i \in 1..Len(effects) : effects[i].ev = "write" /\ ~effects[i].ok
    /\ storage # <<state>>
    /\ ret # "throw"

(***************************************************************************)
(* What the calls of Validation are observed to do.                        *)
(***************************************************************************)
\* The last call of Validation was op, and it has returned or thrown.
Returned(op) == validated.op = op /\ "result" \in DOMAIN validated

\* The call ended with an exception.
Threw(result) == "throws" \in DOMAIN result

\* The field has enabled conditional logic that is false for the values.
Hidden(field, values) ==
    /\ "conditionalLogic" \in DOMAIN field
    /\ Rule(field.conditionalLogic, "enabled")
    /\ ~evaluateCondition(field.conditionalLogic, values)

\* C21: validateForm reports no error for a field whose enabled conditional logic
\* is false for the submitted values, and its result is what it is for the form
\* without such fields, so that a hidden field never makes the form invalid.
C21_HiddenFieldsValid ==
    Returned("validateForm") =>
        LET fields == validated.fields
            values == validated.values
            shown  == SelectSeq(fields, LAMBDA f : ~Hidden(f, values))
        IN  /\ validated.result = validateForm(values, shown)
            /\ \A i \in 1..Len(fields) :
                  Hidden(fields[i], values) =>
                      /\ ~Threw(validated.result)
                      /\ fields[i].id \notin DOMAIN validated.result.errors

\* A form found valid although its hidden field is required and was left empty,
\* or holds a value that breaks its mobile rule.
C21_Witness ==
    /\ Returned("validateForm")
    /\ validated.result = [valid |-> TRUE, errors |-> << >>]
    /\ \E i \in 1..Len(validated.fields) :
          LET field == validated.fields[i]
              value == ValueOf(validated.values, field.id)
          IN  /\ Hidden(field, validated.values)
              /\ \/ field.required /\ isEmpty(value)
                 \/ field.type = "mobile" /\ value = StringValue(<<"1", "2", "3", "4", "5">>)

\* The value is absent, the empty string or white space only.
Blank(value) ==
    \/ value.t = "undefined"
    \/ value.t = "string" /\ \A i \in 1..Len(value.s) : value.s[i] \in Whitespace

\* C22: for a visible field, a blank value is invalid when the field is required,
\* with the custom errorMessage when one is set and the built-in required message
\* otherwise, and valid when it is not required, whatever the other rules are.
C22_BlankValue ==
    (/\ Returned("validateField")
     /\ ~Hidden(validated.rules, validated.allValues)
     /\ Blank(validated.value)) =>
        LET rules == validated.rules
        IN  IF "required" \in DOMAIN rules /\ rules.required
            THEN validated.result =
                    [valid |-> FALSE,
                     error |-> IF "errorMessage" \in DOMAIN rules
                               THEN rules.errorMessage ELSE "This field is required"]
            ELSE validated.result = [valid |-> TRUE, error |-> "null"]

\* A white-space value refused with the required message for a required field that
\* has another rule too, and one refused with the custom message.
C22_Witness ==
    /\ Returned("validateField")
    /\ validated.value = StringValue(<<" ", "\t">>)
    /\ "required" \in DOMAIN validated.rules
    /\ validated.rules.required
    /\ \/ /\ "mobile" \in DOMAIN validated.rules
          /\ validated.result = [valid |-> FALSE, error |-> "This field is required"]
       \/ /\ "errorMessage" \in DOMAIN validated.rules
          /\ validated.result = [valid |-> FALSE, error |-> validated.rules.errorMessage]

\* C23: validateField returns {valid, error} and validateForm {valid, errors} and
\* neither throws, for every submitted value and every rule set.
C23_AlwaysStructured ==
    /\ Returned("validateField") =>
          /\ ~Threw(validated.result)
          /\ DOMAIN validated.result = {"valid", "error"}
    /\ Returned("validateForm") =>
          /\ ~Threw(validated.result)
          /\ DOMAIN validated.result = {"valid", "errors"}

\* The checks of validateField, in the order the spec gives.
CheckOrder ==
    <<"required", "email", "mobile", "url", "minLength", "maxLength", "min", "max",
      "pattern", "gst", "pan", "pincode", "alphanumeric", "alpha", "numeric">>

\* The rules that make up one check: its own key, the type for a check that a type
\* implies, the custom message for the two checks that use it.
OnlyCheck(rules, check) ==
    LET keys == CASE check \in {"email", "mobile", "url"} ->
                       IF TypeOf(rules) = check THEN {check, "type"} ELSE {check}
                  [] check \in {"required", "pattern"} -> {check, "errorMessage"}
                  [] OTHER -> {check}
    IN  [k \in keys \cap DOMAIN rules |-> rules[k]]

\* The value breaks the rule of this check, taken alone.
Violates(value, rules, check) ==
    validateField(value, OnlyCheck(rules, check), << >>) # [valid |-> TRUE, error |-> "null"]

\* The message of a check.
MessageOf(rules, check) ==
    LET custom(builtin) == IF "errorMessage" \in DOMAIN rules
                           THEN rules.errorMessage ELSE builtin
    IN  CASE check = "required"  -> custom("This field is required")
          [] check = "pattern"   -> custom("Please enter a valid format")
          [] check = "minLength" ->
                 "Minimum " \o ToString(rules.minLength) \o " characters required"
          [] check = "maxLength" ->
                 "Maximum " \o ToString(rules.maxLength) \o " characters allowed"
          [] check = "min" -> "Value must be at least " \o ToString(rules.min)
          [] check = "max" -> "Value must not exceed " \o ToString(rules.max)
          [] OTHER -> messages[check]

\* C24: for a visible field, validateField returns the message of the first check,
\* in the order required, email, mobile, url, minLength, maxLength, min, max,
\* pattern, GST, PAN, pincode, alphanumeric, alpha, numeric, whose rule the value
\* breaks, and valid when it breaks none.
C24_FirstFailureWins ==
    (Returned("validateField") /\ ~Hidden(validated.rules, validated.allValues)) =>
        LET value  == validated.value
            rules  == validated.rules
            broken == {i \in DOMAIN CheckOrder : Violates(value, rules, CheckOrder[i])}
        IN  IF broken = {}
            THEN validated.result = [valid |-> TRUE, error |-> "null"]
            ELSE LET first == CHOOSE i \in broken : \A j \in broken : i <= j
                 IN  validated.result =
                        [valid |-> FALSE, error |-> MessageOf(rules, CheckOrder[first])]

\* The string has exactly ten digits among its characters.
TenDigits(str) == Cardinality({i \in 1..Len(str) : str[i] \in Digit}) = 10

\* The rules of a mobile field: its type alone, or its type with the validation
\* record that addField('mobile') seeds; required or not.
MobileRules(rules) ==
    /\ TypeOf(rules) = "mobile"
    /\ \/ DOMAIN rules \ {"required"} = {"type"}
       \/ /\ DOMAIN rules \ {"required"} = {"type"} \cup DOMAIN getFieldDefaults("mobile").validation
          /\ \A k \in DOMAIN getFieldDefaults("mobile").validation :
                rules[k] = getFieldDefaults("mobile").validation[k]

\* C25: for a field of type mobile, with no validation record or with the one
\* addField('mobile') seeds, a string that is not blank is valid exactly when it
\* has ten digits once every other character is removed.
C25_MobileTenDigits ==
    (/\ Returned("validateField")
     /\ MobileRules(validated.rules)
     /\ validated.value.t = "string"
     /\ ~Blank(validated.value)) =>
        /\ ~Threw(validated.result)
        /\ validated.result.valid = TenDigits(validated.value.s)
        /\ ~validated.result.valid =>
              validated.result.error = "Please enter a valid 10-digit mobile number"

\* The rules without their custom pattern.
WithoutPattern(rules) == [k \in DOMAIN rules \ {"pattern"} |-> rules[k]]

\* C26: with a custom pattern that does not compile, validateField returns what
\* it returns without the pattern: no error is raised for it, the value does not
\* fail because of it, and the checks after it are made.
C26_BadPatternPasses ==
    (/\ Returned("validateField")
     /\ "pattern" \in DOMAIN validated.rules
     /\ RegExp(validated.rules.pattern).throws) =>
        /\ validated.result =
              validateField(validated.value, WithoutPattern(validated.rules),
                            validated.allValues)
        /\ validated.result # [throws |-> "SyntaxError"]

\* A value let through by a pattern that does not compile and then refused by the
\* alpha rule, which comes after the pattern check.
C26_Witness ==
    /\ Returned("validateField")
    /\ validated.rules = [pattern |-> "[", alpha |-> TRUE]
    /\ validated.value = StringValue(<<"a", "b", "1">>)
    /\ validated.result = [valid |-> FALSE, error |-> "Only letters are allowed"]

\* C27: evaluateCondition returns true when the condition is absent, when it is
\* not enabled, when its trigger field id is empty, and when its operator is not
\* one of the known operators, whatever the values are.
C27_VisibleByDefault ==
    Returned("evaluateCondition") =>
        LET condition == validated.condition
            absent    == "t" \in DOMAIN condition
            disabled  == "enabled" \notin DOMAIN condition \/ ~condition.enabled
            noField   == "field" \notin DOMAIN condition \/ condition.field = ""
            unknown   == "operator" \notin DOMAIN condition
                            \/ condition.operator \notin Operators
        IN  (absent \/ disabled \/ noField \/ unknown) => validated.result = TRUE

\* An enabled condition on f1 with an operator that is not known, found true for a
\* form in which f1 has a value.
C27_Witness ==
    /\ Returned("evaluateCondition")
    /\ "operator" \in DOMAIN validated.condition
    /\ validated.condition.operator = "matches"
    /\ validated.condition.enabled
    /\ validated.condition.field = "f1"
    /\ "f1" \in DOMAIN validated.values
    /\ validated.result = TRUE

\* The condition is enabled, on the trigger field f1, with this operator.
Compares(condition, operator) ==
    /\ "t" \notin DOMAIN condition
    /\ "enabled" \in DOMAIN condition /\ condition.enabled
    /\ "field" \in DOMAIN condition /\ condition.field = "f1"
    /\ "operator" \in DOMAIN condition /\ condition.operator = operator

\* C28: with operator equals, evaluateCondition is true exactly when the value of
\* the trigger field and the condition value are of the same type and the same
\* value (both absent included); with not_equals it is the negation of that.
C28_EqualsIsStrict ==
    Returned("evaluateCondition") =>
        LET condition  == validated.condition
            fieldValue == IF "f1" \in DOMAIN validated.values
                          THEN validated.values.f1 ELSE [t |-> "undefined"]
            value      == IF "value" \in DOMAIN condition
                          THEN condition.value ELSE [t |-> "undefined"]
            same       == fieldValue.t = value.t /\ fieldValue = value
        IN  /\ Compares(condition, "equals") => validated.result = same
            /\ Compares(condition, "not_equals") =>
                  /\ validated.result = ~same
                  /\ validated.result =
                        ~evaluateCondition([condition EXCEPT !.operator = "equals"],
                                           validated.values)

\* equals found true for the condition value "x" with f1 = "x".
C28_Witness ==
    /\ Returned("evaluateCondition")
    /\ Compares(validated.condition, "equals")
    /\ "value" \in DOMAIN validated.condition
    /\ validated.condition.value = StringValue(<<"x">>)
    /\ validated.values = [f1 |-> StringValue(<<"x">>)]
    /\ validated.result = TRUE

\* The string form of a trigger value: the empty string when it is absent (not
\* there, or null), else what String makes of it.
StringForm(fieldValue) ==
    IF fieldValue.t \in {"undefined", "null"} THEN << >> ELSE String(fieldValue)

\* C29: with operator contains, evaluateCondition is true exactly when the string
\* form of the value of the trigger field, a string, a number (0 included) or a
\* boolean, has the condition value as a substring, an absent trigger counting
\* as the empty string; with not_contains it is the negation of that.
C29_ContainsStringForm ==
    Returned("evaluateCondition") =>
        LET condition  == validated.condition
            fieldValue == IF "f1" \in DOMAIN validated.values
                          THEN validated.values.f1 ELSE [t |-> "undefined"]
            value      == IF "value" \in DOMAIN condition
                          THEN condition.value ELSE [t |-> "undefined"]
            found      == \E i \in 0..Len(StringForm(fieldValue)) :
                            /\ i + Len(String(value)) <= Len(StringForm(fieldValue))
                            /\ \A k \in 1..Len(String(value)) :
                                  StringForm(fieldValue)[i + k] = String(value)[k]
        IN  /\ Compares(condition, "contains") => validated.result = found
            /\ Compares(condition, "not_contains") => validated.result = ~found

\* A value that is a number: a number, or a string that is a numeral, the digits
\* of a number with nothing before or after them.
Numeric(value) ==
    \/ value.t = "number"
    \/ value.t = "string" /\ Len(value.s) > 0 /\ AllOf(value.s, Digit)

\* The number a numeric value is: the one that is written as the value is.
NumberOf(value) ==
    IF value.t = "number" THEN value.n
    ELSE CHOOSE n \in {v.n : v \in {w \in Triggers \cup ConditionValues : w.t = "number"}} :
            Decimal(n) = value.s

\* C30: with operator greater_than (less_than), evaluateCondition is true exactly
\* when the value of the trigger field and the condition value are both numbers
\* and the first is greater (less) than the second; it is false for both
\* operators when either of them is absent or is not a number.
C30_NumericComparison ==
    Returned("evaluateCondition") =>
        LET condition  == validated.condition
            fieldValue == IF "f1" \in DOMAIN validated.values
                          THEN validated.values.f1 ELSE [t |-> "undefined"]
            value      == IF "value" \in DOMAIN condition
                          THEN condition.value ELSE [t |-> "undefined"]
            both       == Numeric(fieldValue) /\ Numeric(value)
        IN  /\ Compares(condition, "greater_than") =>
                  validated.result = (both /\ NumberOf(fieldValue) > NumberOf(value))
            /\ Compares(condition, "less_than") =>
                  validated.result = (both /\ NumberOf(fieldValue) < NumberOf(value))

(***************************************************************************)
(* What the commands on fields, reset and the history are observed to do.  *)
(***************************************************************************)
\* How many entries of a sequence are x.
Count(seq, x) == Cardinality({i \in 1..Len(seq) : seq[i] = x})

\* Two sequences hold the same entries, each as often: one permutes the other.
Permutes(a, b) ==
    /\ Len(a) = Len(b)
    /\ \A i \in 1..Len(a) : Count(a, a[i]) = Count(b, a[i])

\* C31: reorderFields(fromIndex, toIndex) permutes the fields of the active step,
\* for every pair of indices, in range or not: no field is lost, duplicated or
\* replaced by an entry that is no field, and every other step is as it was.
C31_ReorderFieldsPermutes ==
    (initialized /\ HasStep(state.steps, state.currentStep)) =>
        \A fromIndex \in StepIndices, toIndex \in StepIndices :
            LET R == reorderFields(Begin("reorderFields"), fromIndex, toIndex, writable)
                k == state.currentStep + 1
            IN  /\ Len(R.state.steps) = Len(state.steps)
                /\ Permutes(state.steps[k].fields, R.state.steps[k].fields)
                /\ \A m \in 1..Len(state.steps) :
                      m # k => R.state.steps[m] = state.steps[m]

\* C32: deleteField of a field that exists and is not the selected element leaves
\* selectedElement as it was; the selection is cleared only when the field
\* deleted was the selected one.
C32_DeleteKeepsOtherSelection ==
    initialized =>
        \A fieldId \in FieldIds(state) :
            LET R == deleteField(Begin("deleteField"), fieldId, writable)
            IN  R.state.selectedElement =
                    IF fieldId = state.selectedElement
                    THEN "null" ELSE state.selectedElement

\* C33: after reset(), from every state, the live state is the seeded defaults
\* (one step with no fields, currentStep 0, nothing selected), the history holds
\* one snapshot, of that state, with the cursor on it, canUndo() and canRedo()
\* are false, nothing is persisted, and an undo that follows is refused.
C33_ResetStartsOver ==
    initialized =>
        LET R == reset(Begin("reset"))
            U == undo([R EXCEPT !.effects = << >>, !.ret = "undefined"], writable)
        IN  /\ R.state = InitialState
            /\ Len(R.state.steps) = 1
            /\ R.state.steps[1].fields = << >>
            /\ R.state.currentStep = 0
            /\ R.state.selectedElement = "null"
            /\ R.history = <<R.state>>
            /\ R.historyIndex = 0
            /\ ~canUndo(R) /\ ~canRedo(R)
            /\ R.storage = << >>
            /\ U.ret = "false"
            /\ U.state = R.state /\ U.history = R.history /\ U.historyIndex = 0

\* A reset of a project that had snapshots to go back to and was persisted.
C33_Witness ==
    /\ last.op = "reset"
    /\ last.historyIndex > 0
    /\ writable
    /\ state = InitialState
    /\ history = <<InitialState>>
    /\ historyIndex = 0
    /\ storage = << >>

\* The live state of the object is the snapshot at its cursor.
Synced(R) == R.historyIndex >= 0 /\ R.state = R.history[R.historyIndex + 1]

\* The call that made R pushed a snapshot.
SavedIn(R) == \E i \in 1..Len(R.effects) : R.effects[i].ev = "save"

\* The object after each committing command that can be given now.
AfterCommands ==
    {addStep(Begin("addStep"), name, writable) : name \in StepNames}
    \cup {updateStep(Begin("updateStep"), i, [name |-> "Intro"], writable) : i \in StepIndices}
    \cup {deleteStep(Begin("deleteStep"), i, writable) : i \in StepIndices}
    \cup {reorderSteps(Begin("reorderSteps"), i, j, writable) : i \in {0, 1}, j \in {0, 1}}
    \cup {setCurrentStep(Begin("setCurrentStep"), i, writable) : i \in StepIndices}
    \cup {addField(Begin("addField"), type, << >>, writable) : type \in FieldTypes}
    \cup {updateField(Begin("updateField"), id, [label |-> "Phone"], writable) :
              id \in FieldIds(state)}
    \cup {deleteField(Begin("deleteField"), id, writable) : id \in FieldIds(state)}
    \cup {reorderFields(Begin("reorderFields"), i, j, writable) : i \in {0, 1}, j \in {0, 1}}
    \cup {updateHeaderTitle(Begin("updateHeaderTitle"), [bold |-> b], writable) :
              b \in BOOLEAN}
    \cup {toggleTheme(Begin("toggleTheme"), writable)}
    \cup {importJSON(Begin("importJSON"), json, writable) : json \in ImportInputs}

\* C34: right after every committing command and every undo or redo that is not
\* refused, the whole live state, selectedElement and currentView included, is
\* the snapshot at the cursor; the live state differs from that snapshot only
\* after selectElement or a switch of the view (and after an undo or redo that
\* was refused and so changed nothing).
C34_LiveIsSnapshot ==
    initialized =>
        /\ \A R \in AfterCommands : SavedIn(R) => Synced(R)
        /\ \A R \in {undo(Begin("undo"), writable), redo(Begin("redo"), writable)} :
              R.ret = "true" => Synced(R)
        /\ (Committed \/ (last.op \in {"undo", "redo"} /\ ret = "true")) => Synced(Self)
        /\ ~Synced(Self) =>
              \/ last.op \in {"selectElement", "switchView"}
              \/ last.op \in {"undo", "redo"} /\ ret = "false" /\ effects = << >>

\* An undo that put back a snapshot made before the element now selected in the
\* snapshot after it was selected.
C34_Witness ==
    /\ last.op = "undo"
    /\ ret = "true"
    /\ Synced(Self)
    /\ state.selectedElement = "null"
    /\ history[historyIndex + 2].selectedElement = "header"
    /\ history[historyIndex + 2].currentView = "preview"

\* C35: deleteStep(k) of a step other than the active one keeps the same step
\* active: the step at currentStep after the call has the id of the step at
\* currentStep before it.
C35_ActiveStepStays ==
    (initialized /\ FirstHole(state.steps) = 0) =>
        \A k \in StepIndices \ {state.currentStep} :
            LET R == deleteStep(Begin("deleteStep"), k, writable)
            IN  R.state.steps[R.state.currentStep + 1].id
                    = state.steps[state.currentStep + 1].id

(***************************************************************************)
(* What the page around AppState is observed to do: the theme of the       *)
(* document, the properties panel, the publish modal and the toasts.       *)
(***************************************************************************)
\* C40: when App.init has completed on a page that had a persisted snapshot,
\* data-theme is the theme of the loaded settings.
C40_ThemeOfLoadedState ==
    (last.op = "init" /\ storage # << >>) => dataTheme = state.settings.theme

\* C36: while a field stays selected in the panel that was rendered for it, a
\* debounced edit of one validation rule leaves the other rules of the field as
\* they are in the state, so that successive edits of different rules accumulate.
C36_ValidationEditsAccumulate ==
    \A i \in 1..Len(properties.timers) :
        LET timer == properties.timers[i]
            R == validationInput(Begin("updateField"), timer, writable)
            before == getField(Self, timer.field.id)
            after == getField(R, timer.field.id)
        IN  (/\ state.selectedElement = timer.field.id
             /\ properties.currentElement = timer.field.id
             /\ properties.field = <<timer.field>>
             /\ before # << >>)
            => \A k \in DOMAIN ValidationOf(before[1]) \ {timer.input} :
                  /\ k \in DOMAIN ValidationOf(after[1])
                  /\ ValidationOf(after[1])[k] = ValidationOf(before[1])[k]

\* C39: never more than maxToasts toasts are active.
C39_AtMostMaxToasts == Len(toast.activeToasts) <= maxToasts

\* The toast has been queued and not yet created.
IsQueued(T, id) == \E i \in 1..Len(T.queue) : T.queue[i].id = id

\* C38: every toast shown (each has the default or a positive duration), whether
\* created at once or queued first, is in the end no longer active, and the
\* queue is in the end empty, with no action of the user.
C38_ToastsGoAway ==
    /\ \A id \in 1..MaxShown :
          (IsActive(toast, id) \/ IsQueued(toast, id))
              ~> (~IsActive(toast, id) /\ ~IsQueued(toast, id))
    /\ (toast.queue # << >>) ~> (toast.queue = << >>)

\* C37: a click on an option of the publish modal resolves the promise of
\* showPublishModal with the action of that option, and closing the modal
\* without choosing resolves it with null.
C37_OptionResolvesWithAction ==
    (modal.active /\ modal.promise = "pending") =>
        /\ close(modal).promise = "null"
        /\ modal.options =>
              \A action \in PublishActions : clickOption(modal, action).promise = action

====
